---- MODULE Spec2Model ----
(***************************************************************************)
(* The request pipeline of waterfalls-client: the blocking client          *)
(* (src/src/blocking.rs, on minreq) and the async client                   *)
(* (src/src/async.rs, on reqwest), one call at a time on one client.       *)
(*                                                                         *)
(* A call is a small process: an operation is invoked (pc "start"), a      *)
(* request is sent (pc "await"), the server answers with a response or the *)
(* transport fails; get_with_retry either sleeps (pc "sleep") and loops or *)
(* hands the response back (pc "returned"); the operation's helper maps    *)
(* the response to the operation's Result (pc "done").                     *)
(***************************************************************************)
EXTENDS Integers, Sequences, FiniteSets, TLC

(***************************************************************************)
(* Bounds of the model.                                                    *)
(***************************************************************************)
\* Largest count handed to Builder::max_retries in the specification Spec.
MaxCount == 2

\* Largest small index of a V, and largest small raw integer, tried next to
\* the ones at the ends of the 32-bit ranges.
MaxIndex == 8

\* Most pages under one key of txs_seen, and most TxSeen in one page.
MaxPages == 2

MaxPageLen == 2

\* Most entries in the txs_seen object of a server response.
MaxEntries == 2

\* Largest page and to_index handed to waterfalls_version.
MaxParam == 1

\* The transactions of a page of a serialized response.
MaxTxs == 1

\* Most (key, value) pairs handed to get_response_json_with_query.
MaxPairs == 2

(***************************************************************************)
(* Program constants.                                                      *)
(***************************************************************************)
BASE_BACKOFF_MILLIS == 256

DEFAULT_MAX_RETRIES == 6

RETRYABLE_ERROR_CODES == {429, 500, 503}

\* 2^16: `status as u16` keeps the low 16 bits of the i32 status.
U16_RANGE == 65536

\* The only status the blocking client takes as a success.
STATUS_OK == 200

STATUS_NOT_FOUND == 404

(***************************************************************************)
(* Inputs: what a server can answer.                                       *)
(***************************************************************************)
\* reqwest::StatusCode holds 100..999: a success outside 200, a client
\* error, and the three retryable codes.
ReqwestStatuses == {200, 204, 404, 429, 500, 503}

\* minreq parses the status line into an i32, so the blocking client can
\* also see a number outside the u16 range: 66036 = 65536 + 500.
MinreqStatuses == ReqwestStatuses \cup {66036}

\* Bodies, by what the decoders make of them:
\*   "wellformed" decodes under the decoder of the operation that asked;
\*   "hexjunk"    is valid hex text of bytes that are no consensus encoding;
\*   "malformed"  is UTF-8 text that is neither hex, JSON, a hash nor a
\*                consensus encoding;
\*   "nonutf8"    is a byte string that is not UTF-8 (and decodes as nothing).
Bodies == {"wellformed", "hexjunk", "malformed", "nonutf8"}

Txids == {"txid_a", "txid_b"}

IsUtf8(body) == body # "nonutf8"

IsHex(body) == body \in {"wellformed", "hexjunk"}

IsWellFormed(body) == body = "wellformed"

\* A response is a whole one: its status and its body have both arrived. A
\* request that ends before that is a transport failure (SendFails).
Responses(kind) ==
  [status : IF kind = "blocking" THEN MinreqStatuses ELSE ReqwestStatuses,
   body : Bodies]

NoResp == [status |-> 0, body |-> "none"]

\* send() returned an error instead of a response.
TransportFailure == [status |-> -1, body |-> "transport failure"]

(***************************************************************************)
(* Results of an operation: Result<T, Error>, or a panic.                  *)
(***************************************************************************)
Res(ok, variant, status, text, decoded) ==
  [ok |-> ok, variant |-> variant, status |-> status, text |-> text,
   decoded |-> decoded]

NoResult == Res(FALSE, "none", 0, "", FALSE)

OkValue(text) == Res(TRUE, "Value", 0, text, TRUE)

OkSome(text) == Res(TRUE, "Some", 0, text, TRUE)

OkNone == Res(TRUE, "None", 0, "", FALSE)

OkUnit == Res(TRUE, "Unit", 0, "", FALSE)

Err(variant, text, decoded) == Res(FALSE, variant, 0, text, decoded)

HttpResponse(status, message) ==
  Res(FALSE, "HttpResponse", status, message, FALSE)

\* The call unwinds: no Result is returned.
Panic(decoded) == Res(FALSE, "panic", 0, "", decoded)

(***************************************************************************)
(* The status predicates.                                                  *)
(***************************************************************************)
is_status_ok(status) == status = STATUS_OK

is_status_not_found(status) == status = STATUS_NOT_FOUND

\* blocking.rs: `let status = status as u16; CODES.contains(&status)`.
is_status_retryable(status) == (status % U16_RANGE) \in RETRYABLE_ERROR_CODES

\* async.rs: the status is a reqwest::StatusCode, read with as_u16().
async_is_status_retryable(status) == status \in RETRYABLE_ERROR_CODES

\* reqwest::StatusCode::is_success: 200..=299.
is_success(status) == status >= 200 /\ status <= 299

\* Mutant: the budget test off by one (`<=` for `<`).
blocking_retry_guard_off_by_one(attempts, max_retries, status) ==
  attempts <= max_retries /\ is_status_retryable(status)

\* The guard of the retrying match arm of get_with_retry.
blocking_retry_guard(attempts, max_retries, status) ==
  attempts < max_retries /\ is_status_retryable(status)

async_retry_guard(attempts, max_retries, status) ==
  attempts < max_retries /\ async_is_status_retryable(status)

retry_guard(kind, attempts, max_retries, status) ==
  IF kind = "blocking"
  THEN blocking_retry_guard(attempts, max_retries, status)
  ELSE async_retry_guard(attempts, max_retries, status)

(***************************************************************************)
(* The helpers of the blocking client: from what the request gave (a       *)
(* response or a transport failure) to the Result.                         *)
(***************************************************************************)
\* `u16::try_from(status).map_err(Error::StatusCode)?` then
\* `resp.as_str().unwrap_or_default()`.
blocking_http_error(r) ==
  IF r.status < 0 \/ r.status >= U16_RANGE
  THEN Err("StatusCode", "", FALSE)
  ELSE HttpResponse(r.status, IF IsUtf8(r.body) THEN r.body ELSE "")

\* Mutant: the not-found arm comes after the not-ok arm, so a 404 is an
\* HttpResponse error like any other status.
get_opt_response_404_is_error(r) ==
  IF r = TransportFailure THEN Err("Minreq", "transport", FALSE)
  ELSE IF ~is_status_ok(r.status) THEN blocking_http_error(r)
  ELSE IF is_status_not_found(r.status) THEN OkNone
  ELSE IF IsWellFormed(r.body) THEN OkSome(r.body)
  ELSE Err("BitcoinEncoding", "", TRUE)

get_opt_response(r) ==
  IF r = TransportFailure THEN Err("Minreq", "transport", FALSE)
  ELSE IF is_status_not_found(r.status) THEN OkNone
  ELSE IF ~is_status_ok(r.status) THEN blocking_http_error(r)
  ELSE IF IsWellFormed(r.body) THEN OkSome(r.body)
  ELSE Err("BitcoinEncoding", "", TRUE)

get_response_hex(r) ==
  IF r = TransportFailure THEN Err("Minreq", "transport", FALSE)
  ELSE IF ~is_status_ok(r.status) THEN blocking_http_error(r)
  ELSE IF ~IsUtf8(r.body) THEN Err("Minreq", "utf8", TRUE)
  ELSE IF ~IsHex(r.body) THEN Panic(TRUE)
  ELSE IF IsWellFormed(r.body) THEN OkValue(r.body)
  ELSE Err("BitcoinEncoding", "", TRUE)

get_response_json_with_query(r) ==
  IF r = TransportFailure THEN Err("Minreq", "transport", FALSE)
  ELSE IF ~is_status_ok(r.status) THEN blocking_http_error(r)
  ELSE IF IsWellFormed(r.body) THEN OkValue(r.body)
  ELSE Err("Minreq", "json", TRUE)

get_response_str(r) ==
  IF r = TransportFailure THEN Err("Minreq", "transport", FALSE)
  ELSE IF ~is_status_ok(r.status) THEN blocking_http_error(r)
  ELSE IF IsUtf8(r.body) THEN OkValue(r.body)
  ELSE Err("Minreq", "utf8", TRUE)

broadcast_result(r) ==
  IF r = TransportFailure THEN Err("Minreq", "transport", FALSE)
  ELSE IF ~is_status_ok(r.status) THEN blocking_http_error(r)
  ELSE OkUnit

(***************************************************************************)
(* The helpers of the async client.                                        *)
(***************************************************************************)
\* reqwest's text(): the body decoded to text, lossily when it is not UTF-8.
text(body) == IF IsUtf8(body) THEN body ELSE "lossy"

async_http_error(r) == HttpResponse(r.status, text(r.body))

get_response(r) ==
  IF r = TransportFailure THEN Err("Reqwest", "transport", FALSE)
  ELSE IF ~is_success(r.status) THEN async_http_error(r)
  ELSE IF IsWellFormed(r.body) THEN OkValue(r.body)
  ELSE Err("BitcoinEncoding", "", TRUE)

async_get_opt_response(r) ==
  LET res == get_response(r) IN
  IF res.ok THEN OkSome(res.text)
  ELSE IF res.variant = "HttpResponse" /\ res.status = 404 THEN OkNone
  ELSE res

async_get_response_json_with_query(r) ==
  IF r = TransportFailure THEN Err("Reqwest", "transport", FALSE)
  ELSE IF ~is_success(r.status) THEN async_http_error(r)
  ELSE IF IsWellFormed(r.body) THEN OkValue(r.body)
  ELSE Err("Reqwest", "json", TRUE)

async_get_response_hex(r) ==
  IF r = TransportFailure THEN Err("Reqwest", "transport", FALSE)
  ELSE IF ~is_success(r.status) THEN async_http_error(r)
  ELSE IF ~IsHex(r.body) THEN Err("HexToBytes", "", TRUE)
  ELSE IF IsWellFormed(r.body) THEN OkValue(r.body)
  ELSE Err("BitcoinEncoding", "", TRUE)

get_response_text(r) ==
  IF r = TransportFailure THEN Err("Reqwest", "transport", FALSE)
  ELSE IF ~is_success(r.status) THEN async_http_error(r)
  ELSE OkValue(text(r.body))

post_request_hex(r) ==
  IF r = TransportFailure THEN Err("Reqwest", "transport", FALSE)
  ELSE IF ~is_success(r.status) THEN async_http_error(r)
  ELSE OkUnit

(***************************************************************************)
(* The operations, over the helpers.                                       *)
(***************************************************************************)
get_tx_result(kind, r) ==
  IF kind = "blocking" THEN get_opt_response(r) ELSE async_get_opt_response(r)

\* Mutant: everything but Ok(Some(tx)) becomes TransactionNotFound, the
\* error of get_tx included.
get_tx_no_opt_result_hides_errors(kind, txid, r) ==
  LET res == get_tx_result(kind, r) IN
  IF res.ok /\ res.variant = "Some" THEN OkValue(res.text)
  ELSE Err("TransactionNotFound", txid, res.decoded)

\* Ok(Some(tx)) => Ok(tx), Ok(None) => Err(TransactionNotFound(*txid)),
\* Err(e) => Err(e).
get_tx_no_opt_result(kind, txid, r) ==
  LET res == get_tx_result(kind, r) IN
  IF res.ok /\ res.variant = "Some" THEN OkValue(res.text)
  ELSE IF res.ok /\ res.variant = "None"
  THEN Err("TransactionNotFound", txid, res.decoded)
  ELSE res

\* `.map(|s| BlockHash::from_str(s).map_err(Error::HexToArray))?`
block_hash_from_str(res) ==
  IF ~res.ok THEN res
  ELSE IF IsWellFormed(res.text) THEN OkValue(res.text)
  ELSE Err("HexToArray", "", TRUE)

str_result(kind, r) ==
  IF kind = "blocking" THEN get_response_str(r) ELSE get_response_text(r)

HexOps == {"get_header_by_hash"}

StrOps ==
  {"get_address_txs", "server_recipient", "server_address",
   "time_since_last_block"}

HashOps == {"get_tip_hash", "get_block_hash"}

TxOps == {"get_tx", "get_tx_no_opt"}

WaterfallOps == {"waterfalls", "waterfalls_addresses", "waterfalls_version"}

PostOps == {"broadcast"}

Ops == TxOps \cup HexOps \cup StrOps \cup HashOps \cup WaterfallOps \cup PostOps

\* The operations whose helper sends through get_with_retry.
RetriedOps == TxOps \cup HexOps \cup StrOps \cup HashOps

\* The Result of operation o, called with txid, when its request gave r.
Operation(kind, o, txid, r) ==
  CASE o = "get_tx" -> get_tx_result(kind, r)
    [] o = "get_tx_no_opt" -> get_tx_no_opt_result(kind, txid, r)
    [] o \in HexOps ->
         IF kind = "blocking" THEN get_response_hex(r)
         ELSE async_get_response_hex(r)
    [] o \in StrOps -> str_result(kind, r)
    [] o \in HashOps -> block_hash_from_str(str_result(kind, r))
    [] o \in WaterfallOps ->
         IF kind = "blocking" THEN get_response_json_with_query(r)
         ELSE async_get_response_json_with_query(r)
    [] o \in PostOps ->
         IF kind = "blocking" THEN broadcast_result(r) ELSE post_request_hex(r)

(***************************************************************************)
(* State.                                                                  *)
(***************************************************************************)
VARIABLES
  client,    \* the built client: [kind, max_retries]
  pc,        \* where the call is: idle, start, await, sleep, returned, done
  op,        \* the operation called, "none" when idle
  arg,       \* its txid, "none" for the operations that take none
  attempts,  \* get_with_retry's attempts
  delay,     \* get_with_retry's delay, in milliseconds
  requests,  \* requests sent by this call
  sleeps,    \* the sleeps of this call, in order, in milliseconds
  hist,      \* the statuses of the responses this call received, in order
  resp,      \* the response handed to the helper
  result,    \* the Result of the call
  pure,      \* the data-model functions: their input, step and output
  builder,   \* the Builder a client is configured with
  calls      \* the calls in progress on a configured client, each with its locals

\* The variables of the call.
callvars ==
  <<client, pc, op, arg, attempts, delay, requests, sleeps, hist, resp, result>>

vars == <<callvars, pure, builder, calls>>

\* No data-model function is being applied.
NoPure == [step |-> "none"]

\* No Builder is in use, and no call on a client configured by one.
NoBuilder == [step |-> "none"]

NoCalls == <<>>

Kinds == {"blocking", "async"}

\* Before a call: the locals of get_with_retry as it initialises them.
Fresh ==
  /\ attempts = 0
  /\ delay = BASE_BACKOFF_MILLIS
  /\ requests = 0
  /\ sleeps = <<>>
  /\ hist = <<>>
  /\ resp = NoResp
  /\ result = NoResult

\* Builder::new(url).max_retries(count).build_blocking() / build_async().
Init ==
  /\ client \in [kind : Kinds, max_retries : 0..MaxCount]
  /\ pc = "idle"
  /\ op = "none"
  /\ arg = "none"
  /\ Fresh
  /\ pure = NoPure
  /\ builder = NoBuilder
  /\ calls = NoCalls

\* Builder::new(url).build_blocking() / build_async(): the default retries.
InitDefault ==
  /\ client \in [kind : Kinds, max_retries : {DEFAULT_MAX_RETRIES}]
  /\ pc = "idle"
  /\ op = "none"
  /\ arg = "none"
  /\ Fresh
  /\ pure = NoPure
  /\ builder = NoBuilder
  /\ calls = NoCalls

(***************************************************************************)
(* Actions.                                                                *)
(***************************************************************************)
\* The call is entered: the operation and its argument are fixed, nothing is
\* sent yet.
Invoke(o, txid) ==
  /\ pc' = "start"
  /\ op' = o
  /\ arg' = txid
  /\ UNCHANGED <<client, attempts, delay, requests, sleeps, hist, resp, result>>
  /\ UNCHANGED <<pure, builder, calls>>

get_tx(txid) ==
  /\ pc = "idle"
  /\ Invoke("get_tx", txid)

get_tx_no_opt(txid) ==
  /\ pc = "idle"
  /\ Invoke("get_tx_no_opt", txid)

get_header_by_hash ==
  /\ pc = "idle"
  /\ Invoke("get_header_by_hash", "none")

get_tip_hash ==
  /\ pc = "idle"
  /\ Invoke("get_tip_hash", "none")

get_block_hash ==
  /\ pc = "idle"
  /\ Invoke("get_block_hash", "none")

get_address_txs ==
  /\ pc = "idle"
  /\ Invoke("get_address_txs", "none")

server_recipient ==
  /\ pc = "idle"
  /\ Invoke("server_recipient", "none")

server_address ==
  /\ pc = "idle"
  /\ Invoke("server_address", "none")

time_since_last_block ==
  /\ pc = "idle"
  /\ Invoke("time_since_last_block", "none")

waterfalls ==
  /\ pc = "idle"
  /\ Invoke("waterfalls", "none")

waterfalls_addresses ==
  /\ pc = "idle"
  /\ Invoke("waterfalls_addresses", "none")

waterfalls_version ==
  /\ pc = "idle"
  /\ Invoke("waterfalls_version", "none")

broadcast ==
  /\ pc = "idle"
  /\ Invoke("broadcast", "none")

\* The request goes out: `.send()`.
Send ==
  /\ pc = "start"
  /\ pc' = "await"
  /\ requests' = requests + 1
  /\ UNCHANGED <<client, op, arg, attempts, delay, sleeps, hist, resp, result>>
  /\ UNCHANGED <<pure, builder, calls>>

\* Mutant: the retrying arm keeps the response, and the returning arm hands
\* back the kept one when there is one: the first retried response is what
\* the helper sees.
Receive_returns_first(r) ==
  /\ pc = "await"
  /\ hist' = Append(hist, r.status)
  /\ IF op \in RetriedOps
        /\ retry_guard(client.kind, attempts, client.max_retries, r.status)
     THEN /\ pc' = "sleep"
          /\ sleeps' = Append(sleeps, delay)
          /\ resp' = IF resp = NoResp THEN r ELSE resp
     ELSE /\ pc' = "returned"
          /\ resp' = IF resp = NoResp THEN r ELSE resp
          /\ sleeps' = sleeps
  /\ UNCHANGED <<client, op, arg, attempts, delay, requests, result>>
  /\ UNCHANGED <<pure, builder, calls>>

\* Mutant: the returning arm sleeps as well before it hands the response
\* back.
Receive_sleeps_before_return(r) ==
  /\ pc = "await"
  /\ hist' = Append(hist, r.status)
  /\ IF op \in RetriedOps
        /\ retry_guard(client.kind, attempts, client.max_retries, r.status)
     THEN /\ pc' = "sleep"
          /\ sleeps' = Append(sleeps, delay)
          /\ resp' = NoResp
     ELSE /\ pc' = "returned"
          /\ resp' = r
          /\ sleeps' = IF op \in RetriedOps THEN Append(sleeps, delay)
                       ELSE sleeps
  /\ UNCHANGED <<client, op, arg, attempts, delay, requests, result>>
  /\ UNCHANGED <<pure, builder, calls>>

\* A response arrives. Under get_with_retry the retrying arm starts the
\* sleep and drops the response; the other arm returns it to the helper.
\* The helpers that do not use get_with_retry take the response as it is.
Receive(r) ==
  /\ pc = "await"
  /\ hist' = Append(hist, r.status)
  /\ IF op \in RetriedOps
        /\ retry_guard(client.kind, attempts, client.max_retries, r.status)
     THEN /\ pc' = "sleep"
          /\ sleeps' = Append(sleeps, delay)
          /\ resp' = NoResp
     ELSE /\ pc' = "returned"
          /\ resp' = r
          /\ sleeps' = sleeps
  /\ UNCHANGED <<client, op, arg, attempts, delay, requests, result>>
  /\ UNCHANGED <<pure, builder, calls>>

\* Mutant: a failed send is treated like a retryable response while retries
\* remain: the call sleeps and sends again.
SendFails_retried ==
  /\ pc = "await"
  /\ IF op \in RetriedOps /\ attempts < client.max_retries
     THEN /\ pc' = "sleep"
          /\ sleeps' = Append(sleeps, delay)
          /\ result' = result
     ELSE /\ pc' = "done"
          /\ sleeps' = sleeps
          /\ result' = Operation(client.kind, op, arg, TransportFailure)
  /\ UNCHANGED <<client, op, arg, attempts, delay, requests, hist, resp>>
  /\ UNCHANGED <<pure, builder, calls>>

\* send() fails: `?` leaves get_with_retry and every helper passes the
\* error on.
SendFails ==
  /\ pc = "await"
  /\ pc' = "done"
  /\ result' = Operation(client.kind, op, arg, TransportFailure)
  /\ UNCHANGED <<client, op, arg, attempts, delay, requests, sleeps, hist, resp>>
  /\ UNCHANGED <<pure, builder, calls>>

\* Mutant: the delay grows by the base instead of doubling.
Wake_linear_backoff ==
  /\ pc = "sleep"
  /\ attempts' = attempts + 1
  /\ delay' = delay + BASE_BACKOFF_MILLIS
  /\ pc' = "start"
  /\ UNCHANGED <<client, op, arg, requests, sleeps, hist, resp, result>>
  /\ UNCHANGED <<pure, builder, calls>>

\* Mutant: the delay stops doubling at four times the base.
Wake_capped_delay ==
  /\ pc = "sleep"
  /\ attempts' = attempts + 1
  /\ delay' = IF delay * 2 > 4 * BASE_BACKOFF_MILLIS
              THEN 4 * BASE_BACKOFF_MILLIS ELSE delay * 2
  /\ pc' = "start"
  /\ UNCHANGED <<client, op, arg, requests, sleeps, hist, resp, result>>
  /\ UNCHANGED <<pure, builder, calls>>

\* The sleep ends: `attempts += 1; delay *= 2;` and the loop sends again.
Wake ==
  /\ pc = "sleep"
  /\ attempts' = attempts + 1
  /\ delay' = delay * 2
  /\ pc' = "start"
  /\ UNCHANGED <<client, op, arg, requests, sleeps, hist, resp, result>>
  /\ UNCHANGED <<pure, builder, calls>>

\* The helper maps the response to the operation's Result.
Finish ==
  /\ pc = "returned"
  /\ result' = Operation(client.kind, op, arg, resp)
  /\ pc' = "done"
  /\ UNCHANGED <<client, op, arg, attempts, delay, requests, sleeps, hist, resp>>
  /\ UNCHANGED <<pure, builder, calls>>

\* The caller has the Result; the locals of the call are gone.
Return ==
  /\ pc = "done"
  /\ pc' = "idle"
  /\ op' = "none"
  /\ arg' = "none"
  /\ attempts' = 0
  /\ delay' = BASE_BACKOFF_MILLIS
  /\ requests' = 0
  /\ sleeps' = <<>>
  /\ hist' = <<>>
  /\ resp' = NoResp
  /\ result' = NoResult
  /\ UNCHANGED <<client, pure, builder, calls>>

Step ==
  \/ Send
  \/ \E r \in Responses(client.kind) : Receive(r)
  \/ SendFails
  \/ Wake
  \/ Finish
  \/ Return

Next ==
  \/ \E t \in Txids : get_tx(t)
  \/ \E t \in Txids : get_tx_no_opt(t)
  \/ get_header_by_hash
  \/ get_tip_hash
  \/ get_block_hash
  \/ get_address_txs
  \/ server_recipient
  \/ server_address
  \/ time_since_last_block
  \/ waterfalls
  \/ waterfalls_addresses
  \/ waterfalls_version
  \/ broadcast
  \/ Step

Spec == Init /\ [][Next]_vars

\* A client built with the default max_retries, calling one operation of
\* each sending path: get_with_retry (server_recipient), the waterfall
\* lookup and broadcast.
NextDefault ==
  \/ server_recipient
  \/ waterfalls
  \/ broadcast
  \/ Step

SpecDefault == InitDefault /\ [][NextDefault]_vars

(***************************************************************************)
(* The claims.                                                             *)
(***************************************************************************)
\* The retryable set as the specification states it.
ClaimedRetryable == {429, 500, 503}

LastStatus == hist[Len(hist)]

\* C1: in get_with_retry of both clients, after a response the call sleeps
\* (and then sends again) if and only if the retries already made are fewer
\* than max_retries and the status is one of 429, 500, 503; in every other
\* case that response is returned to the caller of get_with_retry.
C1_RetryIffBudgetAndRetryable ==
  op \in RetriedOps =>
    /\ pc = "sleep" =>
         /\ attempts < client.max_retries
         /\ LastStatus \in ClaimedRetryable
    /\ pc = "returned" =>
         /\ resp.status = LastStatus
         /\ ~(attempts < client.max_retries /\ resp.status \in ClaimedRetryable)

\* C2: the k-th backoff sleep of a call lasts exactly 256 ms * 2^(k-1); with
\* max_retries = 6 and the responses 503, 503, 503, 200 the sleeps are
\* 256, 512, 1024 ms, four requests are sent and the 200 response is
\* returned and taken as a success.
C2_BackoffDoubles ==
  /\ \A k \in 1..Len(sleeps) : sleeps[k] = 256 * 2^(k - 1)
  /\ ( /\ op \in RetriedOps
       /\ client.max_retries = 6
       /\ hist = <<503, 503, 503, 200>> )
     => /\ pc \in {"returned", "done"}
        /\ sleeps = <<256, 512, 1024>>
        /\ requests = 4
        /\ resp.status = 200
        /\ pc = "done" => result.variant \notin {"HttpResponse", "StatusCode"}

C2_Witness ==
  /\ op \in RetriedOps
  /\ client.max_retries = 6
  /\ hist = <<503, 503, 503, 200>>
  /\ sleeps = <<256, 512, 1024>>
  /\ pc = "done"
  /\ result.ok

\* C3: whatever the server answers, a call sends at most max_retries + 1
\* requests and sleeps at most max_retries times; with max_retries = 0 it
\* sends exactly one request and never sleeps, and a 503 comes back as
\* Error::HttpResponse with status 503.
C3_BoundedRequests ==
  /\ requests <= client.max_retries + 1
  /\ Len(sleeps) <= client.max_retries
  /\ client.max_retries = 0 =>
       /\ requests <= 1
       /\ sleeps = <<>>
       /\ (pc \in {"await", "returned"} \/ resp # NoResp) => requests = 1
  /\ ( /\ client.max_retries = 0
       /\ op \in RetriedOps
       /\ pc = "done"
       /\ resp.status = 503 )
     => /\ ~result.ok
        /\ result.variant = "HttpResponse"
        /\ result.status = 503

C3_Witness ==
  /\ client.max_retries = 0
  /\ op \in RetriedOps
  /\ pc = "done"
  /\ resp.status = 503
  /\ requests = 1
  /\ result.variant = "HttpResponse"

\* What the request of the call gave its helper: the response returned, or
\* the transport failure when send() failed.
Outcome == IF resp = NoResp THEN TransportFailure ELSE resp

AllClaimedRetryable == \A i \in 1..Len(hist) : hist[i] \in ClaimedRetryable

\* C4: when a retried GET receives retryable statuses until max_retries
\* retries are made, the operation returns Error::HttpResponse with the
\* status of the last response (the answer to request max_retries + 1), and
\* never a success.
C4_ExhaustedReturnsLastStatus ==
  ( /\ op \in RetriedOps
    /\ pc = "done"
    /\ Len(hist) = client.max_retries + 1
    /\ AllClaimedRetryable )
  => /\ ~result.ok
     /\ result.variant = "HttpResponse"
     /\ result.status = LastStatus
     /\ requests = client.max_retries + 1

C4_Witness ==
  /\ op \in RetriedOps
  /\ pc = "done"
  /\ client.max_retries >= 2
  /\ Len(hist) = client.max_retries + 1
  /\ AllClaimedRetryable
  /\ hist[1] # LastStatus
  /\ result.variant = "HttpResponse"
  /\ result.status = LastStatus

\* C5: a response whose status is outside {429, 500, 503} ends the retry
\* loop at once, whatever the retry budget left; a 404 answering the first
\* request of a non-optional get yields Error::HttpResponse with status 404
\* after exactly one request and no sleep.
C5_NonRetryableEndsLoop ==
  op \in RetriedOps =>
    /\ (Len(hist) > 0 /\ LastStatus \notin ClaimedRetryable)
       => pc \in {"returned", "done"}
    /\ ( /\ op \notin TxOps
         /\ pc = "done"
         /\ hist = <<404>> )
       => /\ result.variant = "HttpResponse"
          /\ result.status = 404
          /\ requests = 1
          /\ sleeps = <<>>

\* C6: every GET operation, the waterfall lookups included, is retried
\* under the backoff policy: a 429, 500 or 503 answering a waterfall lookup
\* with max_retries > 0 is followed by a sleep and a further request.
C6_WaterfallsRetried ==
  ( /\ op \in WaterfallOps
    /\ client.max_retries > 0
    /\ Len(hist) = 1
    /\ hist[1] \in ClaimedRetryable )
  => /\ Len(sleeps) = 1
     /\ pc \in {"sleep", "start", "await"}

\* C7: broadcast sends exactly one POST and never sleeps, whatever the
\* status and max_retries; a non-success status is returned as
\* Error::HttpResponse with that status and a success status as Ok(()).
C7_BroadcastOnce ==
  op = "broadcast" =>
    /\ requests <= 1
    /\ sleeps = <<>>
    /\ pc \in {"await", "returned", "done"} => requests = 1
    /\ (pc = "done" /\ resp # NoResp) =>
         IF resp.status >= 200 /\ resp.status <= 299
         THEN result = OkUnit
         ELSE /\ ~result.ok
              /\ result.variant = "HttpResponse"
              /\ result.status = resp.status

\* C8 as stated: get_tx returns Ok(None) exactly when the final response of
\* its retry loop has status 404; any other non-success final status
\* returns Error::HttpResponse and never Ok(None).
C8_Original ==
  (op = "get_tx" /\ pc = "done" /\ resp # NoResp) =>
    /\ result = OkNone <=> resp.status = 404
    /\ (resp.status # 404 /\ ~(resp.status >= 200 /\ resp.status <= 299))
       => (~result.ok /\ result.variant = "HttpResponse")

\* C8 as amended: get_tx returns Ok(None) exactly when the final response
\* has status 404, also after earlier retried responses; any other
\* non-success final status returns an error and never Ok(None):
\* Error::HttpResponse with that status when the status fits a u16, and in
\* the blocking client Error::StatusCode when it does not.
C8_OptionalGet ==
  (op = "get_tx" /\ pc = "done" /\ resp # NoResp) =>
    /\ result = OkNone <=> resp.status = 404
    /\ (resp.status # 404 /\ ~(resp.status >= 200 /\ resp.status <= 299))
       => /\ ~result.ok
          /\ IF resp.status >= 0 /\ resp.status < 65536
             THEN result.variant = "HttpResponse" /\ result.status = resp.status
             ELSE result.variant = "StatusCode" /\ client.kind = "blocking"

C8_Witness ==
  /\ op = "get_tx"
  /\ pc = "done"
  /\ client.kind = "blocking"
  /\ Len(hist) = 2
  /\ hist[1] \in ClaimedRetryable
  /\ resp.status = 404
  /\ result = OkNone

\* C9: get_tx_no_opt(txid) returns Error::TransactionNotFound with the
\* requested txid whenever get_tx yields Ok(None), the transaction whenever
\* get_tx yields Ok(Some(tx)), and every error of get_tx unchanged; it sends
\* no request beyond those of get_tx.
C9_NoOptOverGetTx ==
  (op = "get_tx_no_opt" /\ pc = "done") =>
    LET tx == get_tx_result(client.kind, Outcome) IN
    /\ tx = OkNone =>
         /\ ~result.ok
         /\ result.variant = "TransactionNotFound"
         /\ result.text = arg
    /\ (tx.ok /\ tx.variant = "Some") =>
         /\ result.ok
         /\ result.text = tx.text
    /\ ~tx.ok => result = tx
    /\ requests >= Len(hist)
    /\ requests <= Len(hist) + 1
    /\ resp # NoResp => requests = Len(hist)
    /\ requests <= client.max_retries + 1

C9_Witness ==
  /\ op = "get_tx_no_opt"
  /\ pc = "done"
  /\ arg = "txid_b"
  /\ resp.status = 404
  /\ result.variant = "TransactionNotFound"
  /\ result.text = "txid_b"

\* C10: for every operation of both clients the body decoder runs if and
\* only if the final status is in the 2xx range; every non-2xx final status
\* (other than 404 on the optional get) is returned as Error::HttpResponse
\* with the status of the response and its body as text for message, and
\* that body is not decoded.
C10_DecodeIffSuccess ==
  (pc = "done" /\ resp # NoResp) =>
    /\ op \notin PostOps =>
         (result.decoded <=> (resp.status >= 200 /\ resp.status <= 299))
    /\ ( /\ ~(resp.status >= 200 /\ resp.status <= 299)
         /\ ~(op \in TxOps /\ resp.status = 404) )
       => /\ result = HttpResponse(resp.status, text(resp.body))
          /\ ~result.decoded

\* The other client, and the replay of a sequence of statuses through the
\* retry loop of a client of the given kind: the sleeps it makes, how many
\* of the responses it takes, and whether it hands the last one back.
Twin(kind) == IF kind = "blocking" THEN "async" ELSE "blocking"

RECURSIVE Replay(_, _, _, _, _, _, _, _)
Replay(kind, o, mr, st, i, att, dly, slp) ==
  IF i > Len(st) THEN [sleeps |-> slp, taken |-> Len(st), returned |-> FALSE]
  ELSE IF o \in RetriedOps /\ retry_guard(kind, att, mr, st[i])
  THEN Replay(kind, o, mr, st, i + 1, att + 1, dly * 2, Append(slp, dly))
  ELSE [sleeps |-> slp, taken |-> i, returned |-> TRUE]

\* Equal results, the transport error of either library being one kind.
SameResult(a, b) ==
  LET norm(x) ==
        IF x.variant \in {"Minreq", "Reqwest"} /\ x.text = "transport"
        THEN [x EXCEPT !.variant = "transport"]
        ELSE x
  IN norm(a) = norm(b)

\* C11: for every operation and every sequence of responses, the blocking
\* and the async client with the same max_retries reach the same outcome:
\* the same number of requests, the same sleeps and the same result.
C11_ClientsAgree ==
  ( /\ pc = "done"
    /\ \A i \in 1..Len(hist) : hist[i] \in ReqwestStatuses )
  => LET twin == Replay(Twin(client.kind), op, client.max_retries, hist,
                        1, 0, BASE_BACKOFF_MILLIS, <<>>)
     IN /\ twin.sleeps = sleeps
        /\ twin.taken = Len(hist)
        /\ twin.returned = (resp # NoResp)
        /\ SameResult(result, Operation(Twin(client.kind), op, arg, Outcome))

\* C12: in the hex-envelope decode of get_header_by_hash a success-status
\* body that is not valid hex makes the call return Error::HexToBytes; the
\* call never aborts without returning a Result, in either client.
C12_BadHexIsAnError ==
  (op \in HexOps /\ pc = "done") =>
    /\ result.variant # "panic"
    /\ (resp.status = 200 /\ IsUtf8(resp.body) /\ ~IsHex(resp.body))
       => (~result.ok /\ result.variant = "HexToBytes")

\* C13: a waterfall lookup that receives a success status with a body that
\* is not JSON of the expected shape returns an error whose variant differs
\* from the variant returned for a transport failure.
C13_DecodeErrorDistinct ==
  ( /\ op \in WaterfallOps
    /\ pc = "done"
    /\ resp.status = 200
    /\ ~IsWellFormed(resp.body) )
  => /\ ~result.ok
     /\ result.variant #
          Operation(client.kind, op, arg, TransportFailure).variant

\* The Error variant a failed send is reported as.
TransportVariant == IF client.kind = "blocking" THEN "Minreq" ELSE "Reqwest"

\* C14: a transport failure on any attempt of get_with_retry ends the call
\* at once with a transport error: the step that fails is the last of the
\* call, no sleep and no request follow it, whether or not retries remain
\* and whatever was retried before.
C14_TransportFailureEndsCall ==
  /\ [][(pc = "await" /\ pc' # "await" /\ hist' = hist)
         => /\ pc' = "done"
            /\ ~result'.ok
            /\ result'.variant = TransportVariant
            /\ result'.text = "transport"
            /\ requests' = requests
            /\ sleeps' = sleeps]_vars
  /\ [][(pc = "done" /\ resp = NoResp)
         => (pc' = "idle" /\ requests' = 0 /\ sleeps' = <<>>)]_vars
  /\ []((pc = "done" /\ resp = NoResp)
         => /\ requests = Len(hist) + 1
            /\ op \in RetriedOps => Len(sleeps) = Len(hist))

C14_Witness ==
  /\ op \in RetriedOps
  /\ pc = "done"
  /\ resp = NoResp
  /\ Len(hist) = 1
  /\ client.max_retries = 2
  /\ sleeps = <<256>>
  /\ requests = 2
  /\ result.variant = TransportVariant

\* The states of the per-call state machine of the specification.
Built == pc = "start" /\ requests = 0

Decoded == pc = "done" /\ result.ok

Errored ==
  /\ pc = "done"
  /\ ~result.ok
  /\ result.variant \in
       {"Minreq", "Reqwest", "HttpResponse", "StatusCode", "BitcoinEncoding",
        "HexToArray", "HexToBytes", "TransactionNotFound"}

\* C15: every call follows Built -> Sent -> {retry after a delay | Errored |
\* Decoding -> Decoded | Errored}: a call that has sent is never Built
\* again, and it ends in exactly one of Decoded and Errored, with one value
\* or one error.
C15_CallStateMachine ==
  /\ pc \in {"idle", "start", "await", "sleep", "returned", "done"}
  /\ pc \in {"await", "sleep", "returned"} => (requests >= 1 /\ ~Built)
  /\ pc = "done" => (Decoded \/ Errored)
  /\ ~(Decoded /\ Errored)
  /\ Decoded => (resp # NoResp /\ result.variant \in {"Value", "Some", "None", "Unit"})

(***************************************************************************)
(* The data model of src/src/api.rs: V and its integer encoding.           *)
(*                                                                         *)
(* An i32 is an integer of I32_MIN..I32_MAX.  A u32 does not fit the       *)
(* integers of the model checker above I32_MAX, so a u32 n is the record   *)
(* [hi, lo] with n = hi * 2^31 + lo, hi in {0, 1} and lo in 0..I32_MAX:    *)
(* hi is the top bit of n, the bit that `as i32` turns into the sign.      *)
(***************************************************************************)
I32_MAX == 2147483647

I32_MIN == -I32_MAX - 1

\* The indices tried: the small ones, and the ones around 2^31 and 2^32.
U32Inputs ==
  [hi : {0, 1}, lo : (0..MaxIndex) \cup {I32_MAX - 1, I32_MAX}]

\* The raw integers tried: the small ones, and both ends of the i32 range.
I32Inputs ==
  (-(MaxIndex + 1)..MaxIndex) \cup {I32_MIN, I32_MIN + 1, I32_MAX - 1, I32_MAX}

\* `n as i32`: the same 32 bits, never an overflow.
as_i32(n) == IF n.hi = 1 THEN I32_MIN + n.lo ELSE n.lo

\* `x as u32`: the same 32 bits, never an overflow.
as_u32(x) ==
  IF x < 0 THEN [hi |-> 1, lo |-> (x + 1) + I32_MAX] ELSE [hi |-> 0, lo |-> x]

\* `-x` on i32: overflows at I32_MIN only, where the wrapped result is
\* I32_MIN itself.
neg_i32(x) ==
  IF x = I32_MIN THEN [val |-> I32_MIN, ovf |-> TRUE]
  ELSE [val |-> -x, ovf |-> FALSE]

\* `x - 1` on i32: overflows at I32_MIN only, where the wrapped result is
\* I32_MAX.
dec_i32(x) ==
  IF x = I32_MIN THEN [val |-> I32_MAX, ovf |-> TRUE]
  ELSE [val |-> x - 1, ovf |-> FALSE]

\* `-x - 1` on i32, that is (-x) - 1.
neg_dec_i32(x) ==
  LET n == neg_i32(x)
      d == dec_i32(n.val)
  IN  [val |-> d.val, ovf |-> n.ovf \/ d.ovf]

\* enum V.
Undefined == [tag |-> "Undefined", n |-> [hi |-> 0, lo |-> 0]]

Vout(n) == [tag |-> "Vout", n |-> n]

Vin(n) == [tag |-> "Vin", n |-> n]

VInputs ==
  {Undefined} \cup {Vout(n) : n \in U32Inputs} \cup {Vin(n) : n \in U32Inputs}

\* A u32 below 2^31.
U32(k) == [hi |-> 0, lo |-> k]

\* What an evaluation gives: a value, and whether the arithmetic overflowed
\* on the way.  With overflow checks (a debug build) an overflow is a
\* panic; without them (a release build) the value is the wrapped one.
Evaluated(val, ovf) == [val |-> val, ovf |-> ovf]

\* V::raw with the sign of a Vin dropped.
raw_vin_positive(v) ==
  CASE v.tag = "Undefined" -> Evaluated(0, FALSE)
    [] v.tag = "Vout" -> Evaluated(as_i32(v.n), FALSE)
    [] v.tag = "Vin" -> IF as_i32(v.n) = I32_MAX THEN Evaluated(I32_MIN, TRUE)
                        ELSE Evaluated(as_i32(v.n) + 1, FALSE)

\* V::raw with a Vin encoded as -n.
raw_vin_no_offset(v) ==
  CASE v.tag = "Undefined" -> Evaluated(0, FALSE)
    [] v.tag = "Vout" -> Evaluated(as_i32(v.n), FALSE)
    [] v.tag = "Vin" -> neg_i32(as_i32(v.n))

\* V::raw.
raw(v) ==
  CASE v.tag = "Undefined" -> Evaluated(0, FALSE)
    [] v.tag = "Vout" -> Evaluated(as_i32(v.n), FALSE)
    [] v.tag = "Vin" -> neg_dec_i32(as_i32(v.n))

\* V::from_raw with a negative x decoded as Vin(-x).
from_raw_no_offset(x) ==
  IF x = 0 THEN Evaluated(Undefined, FALSE)
  ELSE IF x > 0 THEN Evaluated(Vout(as_u32(x)), FALSE)
  ELSE LET e == neg_i32(x) IN Evaluated(Vin(as_u32(e.val)), e.ovf)

\* V::from_raw.
from_raw(x) ==
  IF x = 0 THEN Evaluated(Undefined, FALSE)
  ELSE IF x > 0 THEN Evaluated(Vout(as_u32(x)), FALSE)
  ELSE LET e == neg_dec_i32(x) IN Evaluated(Vin(as_u32(e.val)), e.ovf)

\* No client and no call: the data-model functions need neither.
NoClient == [kind |-> "none", max_retries |-> 0]

NoCall ==
  /\ builder = NoBuilder
  /\ calls = NoCalls
  /\ client = NoClient
  /\ pc = "none"
  /\ op = "none"
  /\ arg = "none"
  /\ Fresh

\* A V to serialize, or an i32 read from the wire to deserialize, in a
\* build with or without overflow checks.
InitV ==
  /\ NoCall
  /\ \/ pure \in [step : {"value"}, given : {"value"}, checks : BOOLEAN,
                  v : VInputs, raw : {0}, back : {Undefined}, ovf : {FALSE},
                  again : {0}]
     \/ pure \in [step : {"wire"}, given : {"wire"}, checks : BOOLEAN,
                  v : {Undefined}, raw : I32Inputs, back : {Undefined},
                  ovf : {FALSE}, again : {0}]

\* impl Serialize for V: serialize_i32(self.raw()).
V_raw ==
  /\ pure.step = "value"
  /\ LET e == raw(pure.v)
     IN  pure' = IF e.ovf /\ pure.checks
                 THEN [pure EXCEPT !.step = "raw_panic", !.ovf = TRUE]
                 ELSE [pure EXCEPT !.step = "raw", !.raw = e.val, !.ovf = e.ovf]
  /\ UNCHANGED <<callvars, builder, calls>>

\* impl Deserialize for V: V::from_raw(i32::deserialize(..)?), on the integer
\* the peer serialized or on any integer of the wire.
V_from_raw ==
  /\ pure.step \in {"raw", "wire"}
  /\ LET e == from_raw(pure.raw)
     IN  pure' = IF e.ovf /\ pure.checks
                 THEN [pure EXCEPT !.step = "from_raw_panic", !.ovf = TRUE]
                 ELSE [pure EXCEPT !.step = "back", !.back = e.val,
                                   !.ovf = pure.ovf \/ e.ovf]
  /\ UNCHANGED <<callvars, builder, calls>>

\* The V read from the wire is serialized again: raw() of what from_raw
\* gave.
V_raw_of_from_raw ==
  /\ pure.step = "back"
  /\ pure.given = "wire"
  /\ LET e == raw(pure.back)
     IN  pure' = IF e.ovf /\ pure.checks
                 THEN [pure EXCEPT !.step = "raw_panic", !.ovf = TRUE]
                 ELSE [pure EXCEPT !.step = "again", !.again = e.val,
                                   !.ovf = pure.ovf \/ e.ovf]
  /\ UNCHANGED <<callvars, builder, calls>>

NextV ==
  \/ V_raw
  \/ V_from_raw
  \/ V_raw_of_from_raw

SpecV == InitV /\ [][NextV]_vars

\* raw() or from_raw() panicked on an overflow.
Panicked == pure.step \in {"raw_panic", "from_raw_panic"}

\* A V was serialized and the integer deserialized again, without a panic.
RoundTripped == pure.step = "back" /\ pure.given = "value"

\* A V was serialized, without a panic.
Encoded == pure.step \in {"raw", "back"} /\ pure.given = "value"

\* An index below 2^31, the ones `as i32` leaves non-negative.
BelowSignBit(n) == n.hi = 0

\* The V values the round trip is claimed for: every one but Vout(0).
RoundTripClaimed(v) == v.tag = "Vout" => v.n # U32(0)

\* C16 as stated: for every n in the u32 range (n > 0 for a Vout) and for
\* Undefined, from_raw(v.raw()) is v again.
C16_Original ==
  (pure.step # "none" /\ pure.given = "value" /\ RoundTripClaimed(pure.v))
    => /\ ~Panicked
       /\ RoundTripped => pure.back = pure.v

\* C16: from_raw(v.raw()) = v for Undefined, for Vout(n) with
\* 0 < n < 2^31 and for Vin(n) with n < 2^31 - 1; Vin(2^31 - 1) encodes as
\* -2^31, which from_raw decodes back where overflow wraps and panics on
\* where overflow is checked; an index of 2^31 or more never comes back.
C16_RoundTrip ==
  (pure.step # "none" /\ pure.given = "value" /\ RoundTripClaimed(pure.v))
    => /\ (pure.v.tag = "Undefined" \/ (BelowSignBit(pure.v.n)
            /\ (pure.v.tag = "Vin" => pure.v.n.lo < I32_MAX)))
         => /\ ~Panicked
            /\ ~pure.ovf
            /\ RoundTripped => pure.back = pure.v
       /\ (pure.v = Vin(U32(I32_MAX)) /\ pure.step \in {"back", "from_raw_panic"})
         => /\ pure.raw = I32_MIN
            /\ pure.ovf
            /\ pure.checks <=> pure.step = "from_raw_panic"
            /\ RoundTripped => pure.back = pure.v
       /\ (pure.v.tag # "Undefined" /\ ~BelowSignBit(pure.v.n) /\ RoundTripped)
         => pure.back # pure.v

\* Vin(3) went to -4 and came back, and so did the largest Vout.
C16_Witness ==
  /\ RoundTripped
  /\ \/ pure.v = Vin(U32(3)) /\ pure.raw = -4 /\ pure.back = Vin(U32(3))
     \/ pure.v = Vout(U32(I32_MAX)) /\ pure.raw = I32_MAX /\ pure.back = pure.v

\* C17 as stated: for every n in the u32 range Vin(n).raw() is -(n+1) and
\* negative, Vout(n).raw() is n and non-negative, and raw() never
\* overflows.  (Of an index of 2^31 or more, -(n+1) and n are no i32.)
C17_Original ==
  (pure.step # "none" /\ pure.given = "value")
    => /\ pure.step # "raw_panic"
       /\ Encoded
         => /\ ~pure.ovf
            /\ pure.v.tag = "Vin"
              => /\ BelowSignBit(pure.v.n)
                 /\ pure.raw = -(pure.v.n.lo) - 1
                 /\ pure.raw < 0
            /\ pure.v.tag = "Vout"
              => /\ BelowSignBit(pure.v.n)
                 /\ pure.raw = pure.v.n.lo
                 /\ pure.raw >= 0

\* C17: for every n < 2^31, Vin(n).raw() is -(n+1) and negative,
\* Vout(n).raw() is n and non-negative, and raw() does not overflow; for
\* n >= 2^31 the signs are the other way round: Vout(n).raw() = n - 2^32 is
\* negative, Vin(n).raw() = 2^32 - n - 1 is non-negative, and Vin(2^31).raw()
\* overflows.
C17_RawOfIndex ==
  (pure.step \in {"raw", "raw_panic"} /\ pure.given = "value"
      /\ pure.v.tag # "Undefined")
    => /\ BelowSignBit(pure.v.n)
         => /\ pure.step = "raw"
            /\ ~pure.ovf
            /\ pure.v.tag = "Vin"
              => (pure.raw = -(pure.v.n.lo) - 1 /\ pure.raw < 0)
            /\ pure.v.tag = "Vout"
              => (pure.raw = pure.v.n.lo /\ pure.raw >= 0)
       /\ (~BelowSignBit(pure.v.n) /\ pure.step = "raw")
         => /\ pure.v.tag = "Vout"
              => (pure.raw = I32_MIN + pure.v.n.lo /\ pure.raw < 0)
            /\ pure.v.tag = "Vin"
              => (pure.raw = I32_MAX - pure.v.n.lo /\ pure.raw >= 0)
            /\ pure.ovf <=> pure.v = Vin([hi |-> 1, lo |-> 0])
       /\ pure.step = "raw_panic"
         => (pure.checks /\ pure.v = Vin([hi |-> 1, lo |-> 0]))

\* Vin(0) was encoded as -1, Vin(3) as -4, or the largest index below 2^31
\* as -2^31.
C17_Witness ==
  /\ pure.step = "raw"
  /\ pure.given = "value"
  /\ \/ pure.v = Vin(U32(0)) /\ pure.raw = -1
     \/ pure.v = Vin(U32(3)) /\ pure.raw = -4
     \/ pure.v = Vin(U32(I32_MAX)) /\ pure.raw = I32_MIN

\* C18: from_raw is defined for every i32, -2^31 included: 0 gives
\* Undefined, raw > 0 gives Vout(raw), raw < 0 gives Vin(-raw-1), and
\* -raw-1 never overflows.
C18_FromRawTotal ==
  (pure.step \in {"back", "from_raw_panic"} /\ pure.given = "wire")
    => /\ pure.step = "back"
       /\ ~pure.ovf
       /\ pure.raw = 0 => pure.back = Undefined
       /\ pure.raw > 0 => pure.back = Vout(U32(pure.raw))
       /\ pure.raw < 0 => pure.back = Vin(U32(-(pure.raw + 1)))

\* The pairs injectivity is claimed for: distinct values, other than the
\* pair {Undefined, Vout(0)}.
InjectivityClaimed(v, w) ==
  v # w /\ {v, w} # {Undefined, Vout(U32(0))}

\* C19 as stated: with indices anywhere in the u32 range, the value just
\* encoded shares its integer with no other V apart from the documented
\* pair.
C19_Original ==
  (pure.step = "raw" /\ pure.given = "value" /\ ~pure.ovf)
    => \A w \in VInputs :
         InjectivityClaimed(pure.v, w)
           => (raw(w).ovf \/ raw(w).val # pure.raw)

\* An index that `as i32` leaves as it is.
Below(v) == BelowSignBit(v.n)

\* C19: among the V values with an index below 2^31, raw is injective
\* apart from {Undefined, Vout(0)}, and no Vout(n) shares its integer with a
\* Vin(m); a Vout(n) with n >= 2^31 does share it with Vin(2^32 - 1 - n), and
\* a Vin(n) with n > 2^31 with Vout(2^32 - 1 - n).
C19_InjectiveBelowSignBit ==
  (pure.step = "raw" /\ pure.given = "value")
    => /\ Below(pure.v)
         => \A w \in VInputs :
              (Below(w) /\ InjectivityClaimed(pure.v, w))
                => (~raw(w).ovf /\ raw(w).val # pure.raw)
       /\ (~Below(pure.v) /\ pure.v.tag = "Vout")
         => /\ pure.raw = raw(Vin(U32(I32_MAX - pure.v.n.lo))).val
            /\ ~raw(Vin(U32(I32_MAX - pure.v.n.lo))).ovf
       /\ (~Below(pure.v) /\ pure.v.tag = "Vin" /\ pure.v.n.lo > 0)
         => pure.raw = raw(Vout(U32(I32_MAX - pure.v.n.lo))).val

\* Vin(0) was encoded as -1 while Vout(1) encodes as 1, or the largest
\* Vout below 2^31 was encoded next to the smallest Vin.
C19_Witness ==
  /\ pure.step = "raw"
  /\ pure.given = "value"
  /\ \/ pure.v = Vin(U32(0)) /\ pure.raw = -1 /\ raw(Vout(U32(1))).val = 1
     \/ /\ pure.v = Vout(U32(I32_MAX))
        /\ pure.raw = I32_MAX
        /\ raw(Vin(U32(I32_MAX))).val = I32_MIN

(***************************************************************************)
(* The data model of src/src/api.rs: WaterfallResponse and is_empty.       *)
(***************************************************************************)
\* The keys of txs_seen, in the order the BTreeMap iterates them.
KeyOrder == <<"key1", "key2">>

Keys == {KeyOrder[i] : i \in 1..Len(KeyOrder)}

\* One TxSeen stands for all: is_empty looks at no field of it.
TxSeens == {"tx_seen"}

\* The sequences over S of length at most n.
SeqUpTo(S, n) == UNION {[1..k -> S] : k \in 0..n}

\* Vec<TxSeen>, and Vec<Vec<TxSeen>>.
Pages == SeqUpTo(TxSeens, MaxPageLen)

PageLists == SeqUpTo(Pages, MaxPages)

\* BTreeMap<String, Vec<Vec<TxSeen>>>: a function on the keys present.
TxsSeen == UNION {[ks -> PageLists] : ks \in SUBSET Keys}

\* struct WaterfallResponse.
WaterfallResponses ==
  [txs_seen : TxsSeen, page : {0, 1}, tip : {"None", "Some"},
   tip_meta : {"None", "Some"}]

\* self.txs_seen.iter().flat_map(|(_, v)| v.iter()): the pages of the keys
\* from the i-th on, in key order.
RECURSIVE flat_map(_, _)
flat_map(txs_seen, i) ==
  IF i > Len(KeyOrder) THEN <<>>
  ELSE IF KeyOrder[i] \in DOMAIN txs_seen
       THEN txs_seen[KeyOrder[i]] \o flat_map(txs_seen, i + 1)
       ELSE flat_map(txs_seen, i + 1)

\* .all(|a| a.is_empty()), from the i-th page on.
RECURSIVE all_is_empty(_, _)
all_is_empty(pages, i) ==
  IF i > Len(pages) THEN TRUE
  ELSE IF Len(pages[i]) = 0 THEN all_is_empty(pages, i + 1)
  ELSE FALSE

\* An is_empty that looks at the mapping only: no key, no transaction.
is_empty_no_keys(response) == DOMAIN response.txs_seen = {}

\* WaterfallResponse::is_empty.
is_empty(response) == all_is_empty(flat_map(response.txs_seen, 1), 1)

\* A response, as deserialized or built.
InitEmpty ==
  /\ NoCall
  /\ pure \in [step : {"response"}, response : WaterfallResponses,
               empty : {FALSE}]

\* response.is_empty().
WaterfallResponse_is_empty ==
  /\ pure.step = "response"
  /\ pure' = [pure EXCEPT !.step = "answered",
                          !.empty = is_empty(pure.response)]
  /\ UNCHANGED <<callvars, builder, calls>>

NextEmpty == WaterfallResponse_is_empty

SpecEmpty == InitEmpty /\ [][NextEmpty]_vars

\* Some page of some key holds a TxSeen.
HoldsTxSeen(txs_seen) ==
  \E k \in DOMAIN txs_seen :
    \E i \in DOMAIN txs_seen[k] : Len(txs_seen[k][i]) >= 1

\* C20: is_empty is true exactly when every page of every key has no
\* element: true for the empty mapping, for a key with no pages and for a
\* key with [[]], false as soon as a page holds a TxSeen, whatever page, tip
\* and tip_meta are.
C20_IsEmpty ==
  pure.step = "answered"
    => LET t == pure.response.txs_seen
       IN  /\ pure.empty <=> ~HoldsTxSeen(t)
           /\ t = <<>> => pure.empty
           /\ (\A k \in DOMAIN t : t[k] = <<>>) => pure.empty
           /\ (\A k \in DOMAIN t : t[k] = <<(<<>>)>>) => pure.empty
           /\ \A r \in [txs_seen : {t}, page : {0, 1}, tip : {"None", "Some"},
                         tip_meta : {"None", "Some"}] :
                is_empty(r) = pure.empty

\* is_empty answered true for key1 -> [[]] and for key2 with no pages, and
\* false for a second page holding a TxSeen behind an empty one.
C20_Witness ==
  /\ pure.step = "answered"
  /\ \/ /\ pure.response.txs_seen = [k \in {"key1"} |-> <<(<<>>)>>]
        /\ pure.empty
     \/ /\ pure.response.txs_seen = [k \in {"key2"} |-> <<>>]
        /\ pure.empty
        /\ pure.response.tip = "Some"
     \/ /\ pure.response.txs_seen = [k \in {"key1"} |-> << <<>>, <<"tx_seen">> >>]
        /\ ~pure.empty

(***************************************************************************)
(* Deserializing a WaterfallResponse: the txs_seen object of the server    *)
(* response, a sequence of (key, pages) entries in the order the server    *)
(* wrote them, becomes a BTreeMap.                                         *)
(***************************************************************************)
WireEntries == [key : Keys, pages : PageLists]

WireTxsSeen == SeqUpTo(WireEntries, MaxEntries)

\* BTreeMap::insert of the entries from the i-th on, into map: a later
\* entry of the same key replaces the earlier one.
RECURSIVE insert_all(_, _, _)
insert_all(map, entries, i) ==
  IF i > Len(entries) THEN map
  ELSE insert_all(
         [k \in DOMAIN map \cup {entries[i].key} |->
            IF k = entries[i].key THEN entries[i].pages ELSE map[k]],
         entries, i + 1)

\* Deserialize for BTreeMap<String, Vec<Vec<TxSeen>>>.
deserialize_txs_seen(entries) == insert_all(<<>>, entries, 1)

\* txs_seen.iter(): the entries as the decoded response presents them, from
\* the i-th key of the key order on.
RECURSIVE iter(_, _)
iter(txs_seen, i) ==
  IF i > Len(KeyOrder) THEN <<>>
  ELSE IF KeyOrder[i] \in DOMAIN txs_seen
       THEN <<[key |-> KeyOrder[i], pages |-> txs_seen[KeyOrder[i]]]>>
              \o iter(txs_seen, i + 1)
       ELSE iter(txs_seen, i + 1)

\* A txs_seen object as a server wrote it.
InitWire ==
  /\ NoCall
  /\ pure \in [step : {"wire"}, wire : WireTxsSeen, txs_seen : {<<>>}]

\* The response is deserialized.
WaterfallResponse_deserialize ==
  /\ pure.step = "wire"
  /\ pure' = [pure EXCEPT !.step = "decoded",
                          !.txs_seen = deserialize_txs_seen(pure.wire)]
  /\ UNCHANGED <<callvars, builder, calls>>

NextWire == WaterfallResponse_deserialize

SpecWire == InitWire /\ [][NextWire]_vars

\* No key is written twice.
DistinctKeys(entries) ==
  \A i, j \in DOMAIN entries : entries[i].key = entries[j].key => i = j

\* C21: the decoded response of a mapping presents its keys, the pages of
\* each key and the entries of each page in the order of the server
\* response.
C21_OrderAsReceived ==
  (pure.step = "decoded" /\ DistinctKeys(pure.wire))
    => iter(pure.txs_seen, 1) = pure.wire

(***************************************************************************)
(* The URL of waterfalls_version: the path and the query string, as the    *)
(* blocking client (urlencoding::encode, joined by hand) and the async     *)
(* client (reqwest's RequestBuilder::query) build them.                    *)
(***************************************************************************)
\* Option<u32>.
None == [some |-> FALSE, val |-> 0]

Some(n) == [some |-> TRUE, val |-> n]

Options == {None} \cup {Some(n) : n \in 0..MaxParam}

\* The descriptors tried, character by character: plain, with the
\* brackets and the wildcard of a descriptor, and with the characters a
\* query string gives a meaning to.
Descriptors ==
  { <<"a">>,
    <<"a", "(", "b", "/", "*", ")">>,
    <<"a", " ", "&", "b", "=", "~">> }

\* The versions tried (a u8).
Versions == {1, 2, 255}

\* urlencoding::encode on one character: everything but the unreserved
\* characters (letters, digits, - _ . ~) is percent-encoded.
urlencoding_encode_char(c) ==
  CASE c = "(" -> "%28"
    [] c = ")" -> "%29"
    [] c = "*" -> "%2A"
    [] c = "/" -> "%2F"
    [] c = " " -> "%20"
    [] c = "&" -> "%26"
    [] c = "=" -> "%3D"
    [] OTHER -> c

\* The form encoding of reqwest's query on one character: letters, digits
\* and * - . _ are kept, a space is a +, the rest is percent-encoded.
form_urlencoded_char(c) ==
  CASE c = "(" -> "%28"
    [] c = ")" -> "%29"
    [] c = "/" -> "%2F"
    [] c = " " -> "+"
    [] c = "&" -> "%26"
    [] c = "=" -> "%3D"
    [] c = "~" -> "%7E"
    [] OTHER -> c

\* The encoding of a text, from its i-th character on.
RECURSIVE encode(_, _, _)
encode(kind, chars, i) ==
  IF i > Len(chars) THEN ""
  ELSE (IF kind = "blocking" THEN urlencoding_encode_char(chars[i])
        ELSE form_urlencoded_char(chars[i])) \o encode(kind, chars, i + 1)

\* bool::to_string.
bool_to_string(b) == IF b THEN "true" ELSE "false"

\* A word of letters, digits and underscores, which both encodings keep
\* as it is: one piece.
Word(w) == <<w>>

\* The query string of the blocking client, from the i-th parameter on:
\* key=value pairs, each side encoded, joined by &.
RECURSIVE blocking_query(_, _)
blocking_query(query_params, i) ==
  IF i > Len(query_params) THEN ""
  ELSE (IF i > 1 THEN "&" ELSE "")
         \o encode("blocking", query_params[i].key, 1) \o "="
         \o encode("blocking", query_params[i].value, 1)
         \o blocking_query(query_params, i + 1)

\* The query string of the async client: RequestBuilder::query appends each
\* pair, form-encoded, to the pairs already there.
RECURSIVE async_query(_, _)
async_query(query_params, i) ==
  IF i > Len(query_params) THEN ""
  ELSE (IF i > 1 THEN "&" ELSE "")
         \o encode("async", query_params[i].key, 1) \o "="
         \o encode("async", query_params[i].value, 1)
         \o async_query(query_params, i + 1)

\* The URL after the base URL: the path, and ? and the query string when
\* there are parameters.
url_with_query(kind, path, query_params) ==
  IF query_params = <<>> THEN path
  ELSE path \o "?" \o (IF kind = "blocking" THEN blocking_query(query_params, 1)
                       ELSE async_query(query_params, 1))

Param(key, value) == [key |-> Word(key), value |-> value]

\* waterfalls_version with to_index pushed before page.
query_params_to_index_first(descriptor, page, to_index, utxo_only) ==
  <<Param("descriptor", descriptor),
    Param("utxo_only", Word(bool_to_string(utxo_only)))>>
    \o (IF to_index.some
        THEN <<Param("to_index", Word(ToString(to_index.val)))>> ELSE <<>>)
    \o (IF page.some
        THEN <<Param("page", Word(ToString(page.val)))>> ELSE <<>>)

\* waterfalls_version: the parameters it hands to
\* get_response_json_with_query.
query_params_of(descriptor, page, to_index, utxo_only) ==
  <<Param("descriptor", descriptor),
    Param("utxo_only", Word(bool_to_string(utxo_only)))>>
    \o (IF page.some
        THEN <<Param("page", Word(ToString(page.val)))>> ELSE <<>>)
    \o (IF to_index.some
        THEN <<Param("to_index", Word(ToString(to_index.val)))>> ELSE <<>>)

\* waterfalls_version: format!("/v{version}/waterfalls").
waterfalls_path(version) == "/v" \o ToString(version) \o "/waterfalls"

\* A call of waterfalls_version on either client.
InitQuery ==
  /\ NoCall
  /\ pure \in [step : {"call"}, kind : Kinds, descriptor : Descriptors,
               version : Versions, page : Options, to_index : Options,
               utxo_only : BOOLEAN, query_params : {<<>>}, url : {""}]

\* waterfalls_version up to the URL of its request.
waterfalls_version_url ==
  /\ pure.step = "call"
  /\ LET params == query_params_of(pure.descriptor, pure.page, pure.to_index,
                                   pure.utxo_only)
     IN  pure' = [pure EXCEPT
                    !.step = "url",
                    !.query_params = params,
                    !.url = url_with_query(pure.kind,
                                           waterfalls_path(pure.version),
                                           params)]
  /\ UNCHANGED <<callvars, builder, calls>>

NextQuery == waterfalls_version_url

SpecQuery == InitQuery /\ [][NextQuery]_vars

\* The keys of the query, in the order of the query string.
QueryKeys == [i \in DOMAIN pure.query_params |-> pure.query_params[i].key[1]]

\* The encoded descriptor each client is expected to send for the
\* descriptors tried.
ExpectedEnc ==
  CASE pure.descriptor = <<"a">> -> "a"
    [] pure.descriptor = <<"a", "(", "b", "/", "*", ")">> ->
         IF pure.kind = "blocking" THEN "a%28b%2F%2A%29" ELSE "a%28b%2F*%29"
    [] pure.descriptor = <<"a", " ", "&", "b", "=", "~">> ->
         IF pure.kind = "blocking" THEN "a%20%26b%3D~" ELSE "a+%26b%3D%7E"

\* C22: the query of waterfalls_version has its keys in the order
\* descriptor, utxo_only, page, to_index, with page only when page is Some
\* and to_index only when to_index is Some, on the path /v{version}/waterfalls;
\* for (version 2, page Some(1), to_index None, utxo_only true) the query is
\* exactly descriptor=<enc>&utxo_only=true&page=1.
C22_QueryOrder ==
  pure.step = "url"
    => /\ QueryKeys = <<"descriptor", "utxo_only">>
                        \o (IF pure.page.some THEN <<"page">> ELSE <<>>)
                        \o (IF pure.to_index.some THEN <<"to_index">> ELSE <<>>)
       /\ pure.url = "/v" \o ToString(pure.version) \o "/waterfalls?descriptor="
                       \o ExpectedEnc
                       \o "&utxo_only=" \o (IF pure.utxo_only THEN "true" ELSE "false")
                       \o (IF pure.page.some
                           THEN "&page=" \o ToString(pure.page.val) ELSE "")
                       \o (IF pure.to_index.some
                           THEN "&to_index=" \o ToString(pure.to_index.val) ELSE "")
       /\ (pure.version = 2 /\ pure.page = Some(1) /\ pure.to_index = None
             /\ pure.utxo_only)
            => pure.url = "/v2/waterfalls?descriptor=" \o ExpectedEnc
                            \o "&utxo_only=true&page=1"

\* The URL of (version 2, page Some(1), to_index None, utxo_only true) was
\* built for a descriptor with brackets, and one with both page and
\* to_index.
C22_Witness ==
  /\ pure.step = "url"
  /\ \/ /\ pure.version = 2
        /\ pure.page = Some(1)
        /\ pure.to_index = None
        /\ pure.utxo_only
        /\ pure.kind = "blocking"
        /\ pure.url = "/v2/waterfalls?descriptor=a%28b%2F%2A%29&utxo_only=true&page=1"
     \/ /\ pure.page = Some(0)
        /\ pure.to_index = Some(1)
        /\ QueryKeys = <<"descriptor", "utxo_only", "page", "to_index">>

\* C23: the utxo_only key is in the query string only when utxo_only is
\* true, and absent when it is false.
C23_UtxoOnlyWhenTrue ==
  pure.step = "url"
    => ((\E i \in DOMAIN QueryKeys : QueryKeys[i] = "utxo_only")
          <=> pure.utxo_only)

(***************************************************************************)
(* The Builder of src/src/lib.rs and the construction of the two clients.  *)
(***************************************************************************)
\* Option<String>.
NoneStr == [some |-> FALSE, val |-> ""]

SomeStr(str) == [some |-> TRUE, val |-> str]

\* The base URLs, proxies, timeouts, header names and values tried.  A
\* proxy, a header name or a header value is valid or not as the HTTP
\* library of the client judges it.
Urls == {"https://waterfalls.example.com/api", "http://localhost:3000"}

Proxies == {"socks5://127.0.0.1:9050", "invalid proxy"}

Timeouts == {30}

HeaderNames == {"User-Agent", "Bad Name"}

HeaderValues == {"test-client", "bad<LF>value"}

IsValidProxy(proxy) == proxy # "invalid proxy"

\* str::to_lowercase on the header names tried.
to_lowercase(name) ==
  CASE name = "User-Agent" -> "user-agent"
    [] name = "Bad Name" -> "bad name"
    [] OTHER -> name

\* HeaderName::from_lowercase accepts the lowercased name: a space is no
\* character of a header name.
IsValidHeaderName(name) == to_lowercase(name) # "bad name"

\* HeaderValue::from_str accepts the value: a line feed is no character of
\* a header value.
IsValidHeaderValue(value) == value # "bad<LF>value"

\* HashMap<String, String>: a function on the names inserted.
HeaderMaps == UNION {[ns -> HeaderValues] : ns \in SUBSET HeaderNames}

\* Builder::new(base_url).
Builder_new(base_url) ==
  /\ builder.step = "none"
  /\ builder' = [step |-> "building", last |-> "new", base_url |-> base_url,
                 proxy |-> NoneStr, timeout |-> None, headers |-> <<>>,
                 max_retries |-> DEFAULT_MAX_RETRIES, error |-> ""]
  /\ UNCHANGED <<callvars, pure, calls>>

\* Builder::proxy(proxy).
Builder_proxy(proxy) ==
  /\ builder.step = "building"
  /\ builder' = [builder EXCEPT !.proxy = SomeStr(proxy), !.last = "proxy"]
  /\ UNCHANGED <<callvars, pure, calls>>

\* Builder::timeout(timeout).
Builder_timeout(timeout) ==
  /\ builder.step = "building"
  /\ builder' = [builder EXCEPT !.timeout = Some(timeout), !.last = "timeout"]
  /\ UNCHANGED <<callvars, pure, calls>>

\* HashMap::insert(key, value).
insert(map, key, value) ==
  [k \in DOMAIN map \cup {key} |-> IF k = key THEN value ELSE map[k]]

\* Builder::header(key, value).
Builder_header(key, value) ==
  /\ builder.step = "building"
  /\ builder' = [builder EXCEPT !.headers = insert(builder.headers, key, value),
                                !.last = "header"]
  /\ UNCHANGED <<callvars, pure, calls>>

\* Builder::max_retries(count).
Builder_max_retries(count) ==
  /\ builder.step = "building"
  /\ builder' = [builder EXCEPT !.max_retries = count, !.last = "max_retries"]
  /\ UNCHANGED <<callvars, pure, calls>>

\* BlockingClient::from_builder with the default max_retries instead of the
\* builder's.
blocking_from_builder_default_retries(b) ==
  [kind |-> "blocking", url |-> b.base_url, proxy |-> b.proxy,
   timeout |-> b.timeout, headers |-> b.headers,
   max_retries |-> DEFAULT_MAX_RETRIES]

\* BlockingClient::from_builder: the fields of the builder, unchecked.
blocking_from_builder(b) ==
  [kind |-> "blocking", url |-> b.base_url, proxy |-> b.proxy,
   timeout |-> b.timeout, headers |-> b.headers,
   max_retries |-> b.max_retries]

\* The errors AsyncClient::from_builder can stop on: the proxy is looked at
\* first, then the headers in the order the HashMap iterates them, the name
\* of a header before its value.
async_from_builder_errors(b) ==
  IF b.proxy.some /\ ~IsValidProxy(b.proxy.val) THEN {"Reqwest"}
  ELSE {IF ~IsValidHeaderName(k) THEN "InvalidHttpHeaderName"
        ELSE "InvalidHttpHeaderValue" :
          k \in {h \in DOMAIN b.headers :
                   ~IsValidHeaderName(h) \/ ~IsValidHeaderValue(b.headers[h])}}

\* AsyncClient::from_builder, when it returns a client: the reqwest Client
\* holds the proxy, the timeout and the default headers.
async_from_builder(b) ==
  [kind |-> "async", url |-> b.base_url, proxy |-> b.proxy,
   timeout |-> b.timeout,
   headers |-> [n \in {to_lowercase(k) : k \in DOMAIN b.headers} |->
                  b.headers[CHOOSE k \in DOMAIN b.headers : to_lowercase(k) = n]],
   max_retries |-> b.max_retries]

\* Builder::build_blocking.
build_blocking ==
  /\ builder.step = "building"
  /\ client = NoClient
  /\ builder' = [builder EXCEPT !.step = "consumed", !.last = "build_blocking"]
  /\ client' = blocking_from_builder(builder)
  /\ UNCHANGED <<pc, op, arg, attempts, delay, requests, sleeps, hist, resp,
                 result, pure, calls>>

\* Builder::build_async.
build_async ==
  /\ builder.step = "building"
  /\ client = NoClient
  /\ \/ /\ async_from_builder_errors(builder) = {}
        /\ builder' = [builder EXCEPT !.step = "consumed",
                                      !.last = "build_async"]
        /\ client' = async_from_builder(builder)
     \/ /\ \E e \in async_from_builder_errors(builder) :
             builder' = [builder EXCEPT !.step = "failed",
                                        !.last = "build_async", !.error = e]
        /\ UNCHANGED client
  /\ UNCHANGED <<pc, op, arg, attempts, delay, requests, sleeps, hist, resp,
                 result, pure, calls>>

\* No builder yet, no client.
InitBuilder ==
  /\ builder = NoBuilder
  /\ calls = NoCalls
  /\ pure = NoPure
  /\ client = NoClient
  /\ pc = "none"
  /\ op = "none"
  /\ arg = "none"
  /\ Fresh

NextBuilder ==
  \/ \E u \in Urls : Builder_new(u)
  \/ \E p \in Proxies : Builder_proxy(p)
  \/ \E t \in Timeouts : Builder_timeout(t)
  \/ \E k \in HeaderNames, v \in HeaderValues : Builder_header(k, v)
  \/ \E n \in 0..MaxCount : Builder_max_retries(n)
  \/ build_blocking
  \/ build_async

SpecBuilder == InitBuilder /\ [][NextBuilder]_vars

\* The fields of a builder that the setters set.
BuilderFields == {"base_url", "proxy", "timeout", "headers", "max_retries"}

\* The field a method of the builder sets, if any.
FieldOf(method) ==
  CASE method = "proxy" -> {"proxy"}
    [] method = "timeout" -> {"timeout"}
    [] method = "header" -> {"headers"}
    [] method = "max_retries" -> {"max_retries"}
    [] OTHER -> {}

\* C30: Builder::new(url) gives base_url = url, no proxy, no timeout, no
\* headers and max_retries = 6; every setter leaves every field but its own
\* as it was, over every sequence of setters; and the client built has the
\* max_retries of the builder.
C30_BuilderFrame ==
  /\ [][(builder.step = "none" /\ builder'.step # "none")
          => /\ builder'.base_url \in Urls
             /\ builder'.proxy = NoneStr
             /\ builder'.timeout = None
             /\ builder'.headers = <<>>
             /\ builder'.max_retries = 6]_vars
  /\ [][(builder.step = "building" /\ builder' # builder)
          => /\ \A f \in BuilderFields \ FieldOf(builder'.last) :
                  builder'[f] = builder[f]
             /\ builder'.last = "header"
                  => \E key \in HeaderNames :
                       /\ DOMAIN builder'.headers
                            = DOMAIN builder.headers \cup {key}
                       /\ \A k \in DOMAIN builder.headers \ {key} :
                            builder'.headers[k] = builder.headers[k]
             /\ builder'.step = "consumed"
                  => client'.max_retries = builder.max_retries]_vars
  /\ [](builder.step = "consumed" => client.max_retries = builder.max_retries)

\* A client was built after a proxy, a timeout, a header and max_retries
\* were set: it has the count given to max_retries.
C30_Witness ==
  /\ builder.step = "consumed"
  /\ builder.proxy.some
  /\ builder.timeout = Some(30)
  /\ DOMAIN builder.headers = {"User-Agent"}
  /\ builder.max_retries = 1
  /\ client.max_retries = 1

(***************************************************************************)
(* Calls on a configured client.  Every call has its own locals (the       *)
(* attempts and delay of get_with_retry, its response, its Result): the    *)
(* client is borrowed immutably and holds the configuration only.  A call  *)
(* of the async client is a future, which its caller may drop while it is  *)
(* suspended.                                                              *)
(***************************************************************************)
\* The operations called: one that sends through get_with_retry, one
\* waterfall lookup and the broadcast.
CallOps == {"server_recipient", "waterfalls", "broadcast"}

\* What the server answers to these calls.
CallResponses == [status : {200, 404, 503}, body : {"wellformed", "malformed"}]

\* A call not yet made.
NoCallYet ==
  [pc |-> "idle", op |-> "none", arg |-> "none", attempts |-> 0,
   delay |-> BASE_BACKOFF_MILLIS, requests |-> 0, sleeps |-> <<>>,
   hist |-> <<>>, resp |-> NoResp, result |-> NoResult, sent |-> <<>>,
   dropped |-> FALSE]

\* The client exists.
ClientBuilt == builder.step = "consumed"

\* The headers a request of operation o carries.  The blocking client adds
\* self.headers in get_request and in get_response_json_with_query, and
\* broadcast adds none; the async client sends the default headers of its
\* reqwest Client with every request.
headers_of_request(c, o) ==
  IF c.kind = "blocking" /\ o \in PostOps THEN <<>> ELSE c.headers

\* Proxy::new(proxy.as_str())? fails: the blocking client parses its proxy
\* when it builds a request.
proxy_fails_at_call(c) ==
  c.kind = "blocking" /\ c.proxy.some /\ ~IsValidProxy(c.proxy.val)

\* Error::Minreq from Proxy::new.
BadProxy == Err("Minreq", "bad proxy", FALSE)

\* The largest delay any call has reached.
LargestDelay ==
  CHOOSE d \in {calls[c].delay : c \in DOMAIN calls} :
    \A c \in DOMAIN calls : calls[c].delay <= d

\* An operation is called, and the delay is where the calls before left
\* it.
Call_invoke_keeps_delay(c, o) ==
  /\ ClientBuilt
  /\ calls[c].pc = "idle"
  /\ calls' = [calls EXCEPT ![c].pc = "start", ![c].op = o,
                            ![c].delay = LargestDelay]
  /\ UNCHANGED <<callvars, pure, builder>>

\* An operation is called: get_with_retry starts with attempts = 0 and
\* delay = BASE_BACKOFF_MILLIS.
Call_invoke(c, o) ==
  /\ ClientBuilt
  /\ calls[c].pc = "idle"
  /\ calls' = [calls EXCEPT ![c].pc = "start", ![c].op = o,
                            ![c].attempts = 0,
                            ![c].delay = BASE_BACKOFF_MILLIS]
  /\ UNCHANGED <<callvars, pure, builder>>

\* The request is built and sent, or building it fails.
Call_send(c) ==
  /\ calls[c].pc = "start"
  /\ ~calls[c].dropped
  /\ IF proxy_fails_at_call(client)
     THEN calls' = [calls EXCEPT ![c].pc = "done", ![c].result = BadProxy]
     ELSE calls' = [calls EXCEPT
                      ![c].pc = "await",
                      ![c].requests = @ + 1,
                      ![c].sent = Append(@,
                         [method |-> IF calls[c].op \in PostOps
                                     THEN "POST" ELSE "GET",
                          headers |-> headers_of_request(client, calls[c].op)])]
  /\ UNCHANGED <<callvars, pure, builder>>

\* A response arrives: get_with_retry starts a sleep or hands it back.
Call_receive(c, r) ==
  /\ calls[c].pc = "await"
  /\ ~calls[c].dropped
  /\ IF calls[c].op \in RetriedOps
        /\ retry_guard(client.kind, calls[c].attempts, client.max_retries,
                       r.status)
     THEN calls' = [calls EXCEPT ![c].pc = "sleep",
                                 ![c].hist = Append(@, r.status),
                                 ![c].sleeps = Append(@, calls[c].delay)]
     ELSE calls' = [calls EXCEPT ![c].pc = "returned",
                                 ![c].hist = Append(@, r.status),
                                 ![c].resp = r]
  /\ UNCHANGED <<callvars, pure, builder>>

\* send() fails.
Call_send_fails(c) ==
  /\ calls[c].pc = "await"
  /\ ~calls[c].dropped
  /\ calls' = [calls EXCEPT
                 ![c].pc = "done",
                 ![c].result = Operation(client.kind, calls[c].op,
                                         calls[c].arg, TransportFailure)]
  /\ UNCHANGED <<callvars, pure, builder>>

\* The sleep ends, and the counter and the delay are those of the client:
\* every call sees them move.
Call_wake_shared_delay(c) ==
  /\ calls[c].pc = "sleep"
  /\ ~calls[c].dropped
  /\ calls' = [d \in DOMAIN calls |->
                 IF d = c
                 THEN [calls[d] EXCEPT !.pc = "start", !.attempts = @ + 1,
                                       !.delay = @ * 2]
                 ELSE [calls[d] EXCEPT !.attempts = @ + 1, !.delay = @ * 2]]
  /\ UNCHANGED <<callvars, pure, builder>>

\* The sleep ends whether or not the call was dropped: the retry loop runs
\* detached from its caller.
Call_wake_detached(c) ==
  /\ calls[c].pc = "sleep"
  /\ calls' = [calls EXCEPT ![c].pc = "start", ![c].attempts = @ + 1,
                            ![c].delay = @ * 2]
  /\ UNCHANGED <<callvars, pure, builder>>

\* The sleep ends: attempts += 1; delay *= 2; and the loop sends again.
Call_wake(c) ==
  /\ calls[c].pc = "sleep"
  /\ ~calls[c].dropped
  /\ calls' = [calls EXCEPT ![c].pc = "start", ![c].attempts = @ + 1,
                            ![c].delay = @ * 2]
  /\ UNCHANGED <<callvars, pure, builder>>

\* Mutant: the retries a call used are taken from the client, so that the
\* calls after it have fewer.
Call_finish_spends_retries(c) ==
  /\ calls[c].pc = "returned"
  /\ ~calls[c].dropped
  /\ calls' = [calls EXCEPT
                 ![c].pc = "done",
                 ![c].result = Operation(client.kind, calls[c].op,
                                         calls[c].arg, calls[c].resp)]
  /\ client' = [client EXCEPT !.max_retries = @ - calls[c].attempts]
  /\ UNCHANGED <<pc, op, arg, attempts, delay, requests, sleeps, hist, resp,
                 result, pure, builder>>

\* The helper maps the response to the Result of the operation.
Call_finish(c) ==
  /\ calls[c].pc = "returned"
  /\ ~calls[c].dropped
  /\ calls' = [calls EXCEPT
                 ![c].pc = "done",
                 ![c].result = Operation(client.kind, calls[c].op,
                                         calls[c].arg, calls[c].resp)]
  /\ UNCHANGED <<callvars, pure, builder>>

\* The caller drops the future of a call of the async client while it is
\* suspended on send().await or on S::sleep(delay).await.
Call_drop(c) ==
  /\ client.kind = "async"
  /\ calls[c].pc \in {"await", "sleep"}
  /\ ~calls[c].dropped
  /\ calls' = [calls EXCEPT ![c].dropped = TRUE]
  /\ UNCHANGED <<callvars, pure, builder>>

\* The builders the setters reach from Builder::new.
ConfiguredBuilders ==
  [step : {"building"}, last : {"new"}, base_url : Urls,
   proxy : {NoneStr} \cup {SomeStr(p) : p \in Proxies},
   timeout : {None} \cup {Some(t) : t \in Timeouts},
   headers : HeaderMaps,
   max_retries : (0..MaxCount) \cup {DEFAULT_MAX_RETRIES},
   error : {""}]

\* The builders of Builder::new(url).max_retries(count).
PlainBuilders ==
  {b \in ConfiguredBuilders :
     /\ b.proxy = NoneStr
     /\ b.timeout = None
     /\ b.headers = <<>>
     /\ b.max_retries \in 0..MaxCount
     /\ b.base_url = "http://localhost:3000"}

\* A configured builder, no client yet, and one call to make.
InitClient ==
  /\ builder \in ConfiguredBuilders
  /\ calls = [c \in {1} |-> NoCallYet]
  /\ pure = NoPure
  /\ client = NoClient
  /\ pc = "none"
  /\ op = "none"
  /\ arg = "none"
  /\ Fresh

\* A plain builder, no client yet, and two calls to make.
InitCalls ==
  /\ builder \in PlainBuilders
  /\ calls = [c \in {1, 2} |-> NoCallYet]
  /\ pure = NoPure
  /\ client = NoClient
  /\ pc = "none"
  /\ op = "none"
  /\ arg = "none"
  /\ Fresh

NextClient ==
  \/ build_blocking
  \/ build_async
  \/ \E c \in DOMAIN calls, o \in CallOps : Call_invoke(c, o)
  \/ \E c \in DOMAIN calls : Call_send(c)
  \/ \E c \in DOMAIN calls, r \in CallResponses : Call_receive(c, r)
  \/ \E c \in DOMAIN calls : Call_send_fails(c)
  \/ \E c \in DOMAIN calls : Call_wake(c)
  \/ \E c \in DOMAIN calls : Call_finish(c)
  \/ \E c \in DOMAIN calls : Call_drop(c)

SpecClient == InitClient /\ [][NextClient]_vars

SpecCalls == InitCalls /\ [][NextClient]_vars

\* The builder holds a proxy or a header that the HTTP library rejects.
Misconfigured(b) ==
  \/ b.proxy.some /\ ~IsValidProxy(b.proxy.val)
  \/ \E k \in DOMAIN b.headers :
       ~IsValidHeaderName(k) \/ ~IsValidHeaderValue(b.headers[k])

\* C24: a misconfigured proxy or header makes the construction of either
\* client fail, and a client that was constructed never returns a
\* configuration error from a call.
C24_ConfigFailsAtConstruction ==
  /\ ClientBuilt => ~Misconfigured(builder)
  /\ \A c \in DOMAIN calls : calls[c].result # BadProxy

\* The headers h of a request hold every configured header (a header name
\* is the same name in any case).
Carries(h, configured) ==
  \A k \in DOMAIN configured :
    \E n \in DOMAIN h :
      to_lowercase(n) = to_lowercase(k) /\ h[n] = configured[k]

\* C25: every request sent, of every operation and on every attempt,
\* carries all the headers configured with Builder::header.
C25_HeadersOnEveryRequest ==
  \A c \in DOMAIN calls :
    \A i \in DOMAIN calls[c].sent :
      Carries(calls[c].sent[i].headers, builder.headers)

\* 2^n.
RECURSIVE Pow2(_)
Pow2(n) == IF n = 0 THEN 1 ELSE 2 * Pow2(n - 1)

\* What get_with_retry does on the statuses call c received, replayed on
\* its own.
OwnReplay(c) ==
  Replay(client.kind, calls[c].op, client.max_retries, calls[c].hist,
         1, 0, BASE_BACKOFF_MILLIS, <<>>)

\* C26: under every interleaving of two calls on one client, each call has
\* its own retry counter and delay, sends at most max_retries + 1 requests,
\* and its sleeps and its Result are those its own responses determine.
C26_CallsDoNotInterfere ==
  ClientBuilt =>
    \A c \in DOMAIN calls :
      /\ calls[c].requests <= client.max_retries + 1
      /\ calls[c].attempts
           = Len(calls[c].sleeps) - (IF calls[c].pc = "sleep" THEN 1 ELSE 0)
      /\ calls[c].delay = BASE_BACKOFF_MILLIS * Pow2(calls[c].attempts)
      /\ \A i \in DOMAIN calls[c].sleeps :
           calls[c].sleeps[i] = BASE_BACKOFF_MILLIS * Pow2(i - 1)
      /\ calls[c].sleeps = OwnReplay(c).sleeps
      /\ calls[c].requests \in {Len(calls[c].hist), Len(calls[c].hist) + 1}
      /\ (calls[c].pc = "done" /\ calls[c].resp # NoResp)
           => /\ OwnReplay(c).returned
              /\ calls[c].resp.status = calls[c].hist[Len(calls[c].hist)]
              /\ calls[c].result
                   = Operation(client.kind, calls[c].op, calls[c].arg,
                               calls[c].resp)

\* The first call has slept once and got its value while the second, made
\* meanwhile, is waiting for its first response.
C26_Witness ==
  /\ ClientBuilt
  /\ calls[1].pc = "done"
  /\ calls[1].op = "server_recipient"
  /\ calls[1].hist = <<503, 200>>
  /\ calls[1].sleeps = <<256>>
  /\ calls[1].result.ok
  /\ calls[2].pc = "await"
  /\ calls[2].op = "server_recipient"
  /\ calls[2].attempts = 0
  /\ calls[2].delay = 256
  /\ calls[2].requests = 1

\* C27: once the future of an async call is dropped while it awaits a
\* response or a sleep, nothing is done for that call any more (no request,
\* no sleep, no other step), and the other calls on the client go on: what
\* they could do next, they still can.
C27_DroppedCallStops ==
  /\ [][\A c \in DOMAIN calls :
          calls[c].dropped => calls'[c] = calls[c]]_vars
  /\ [](\A c \in DOMAIN calls :
          calls[c].dropped
            => /\ client.kind = "async"
               /\ calls[c].pc \in {"await", "sleep"}
               /\ calls[c].result = NoResult)
  /\ [](\A c, d \in DOMAIN calls :
          (calls[c].dropped /\ ~calls[d].dropped)
            => /\ calls[d].pc = "start" => ENABLED Call_send(d)
               /\ calls[d].pc = "sleep" => ENABLED Call_wake(d)
               /\ calls[d].pc = "returned" => ENABLED Call_finish(d)
               /\ calls[d].pc = "await"
                    => \A r \in CallResponses : ENABLED Call_receive(d, r))

\* The first call was dropped in its first sleep, with one request sent;
\* the second call, made after that, retried once and got its value.
C27_Witness ==
  /\ calls[1].dropped
  /\ calls[1].pc = "sleep"
  /\ calls[1].requests = 1
  /\ calls[1].sleeps = <<256>>
  /\ calls[2].pc = "done"
  /\ calls[2].hist = <<503, 200>>
  /\ calls[2].requests = 2
  /\ calls[2].result.ok

\* C28: the same GET operation issued twice on one client, answered by the
\* same responses both times, gives equal results, the same number of
\* requests and the same sleeps.
C28_SameResponsesSameOutcome ==
  \A c, d \in DOMAIN calls :
    (/\ calls[c].pc = "done"
     /\ calls[d].pc = "done"
     /\ calls[c].op = calls[d].op
     /\ calls[c].op \notin PostOps
     /\ calls[c].hist = calls[d].hist
     /\ calls[c].resp = calls[d].resp)
      => /\ calls[c].result = calls[d].result
         /\ calls[c].requests = calls[d].requests
         /\ calls[c].sleeps = calls[d].sleeps

\* Both calls of server_recipient were answered 503 and then 200 with the
\* same body: both slept 256 ms once, sent two requests and hold the same
\* value.
C28_Witness ==
  /\ calls[1].pc = "done"
  /\ calls[2].pc = "done"
  /\ calls[1].op = "server_recipient"
  /\ calls[2].op = "server_recipient"
  /\ calls[1].hist = <<503, 200>>
  /\ calls[2].hist = <<503, 200>>
  /\ calls[1].resp = calls[2].resp
  /\ calls[1].result.ok
  /\ calls[1].result = calls[2].result
  /\ calls[1].sleeps = <<256>>
  /\ calls[2].sleeps = <<256>>
  /\ calls[1].requests = 2
  /\ calls[2].requests = 2

(***************************************************************************)
(* The serialized form of a WaterfallResponse (src/src/api.rs).            *)
(*                                                                         *)
(* A JSON value is the record [t, n, s, items]: t is its type, n the       *)
(* number of an "int", s the text of a "str", items the elements of an     *)
(* "arr" or the members [key, value] of an "obj", in the order written.    *)
(***************************************************************************)
JNull == [t |-> "null", n |-> 0, s |-> "", items |-> <<>>]

JInt(n) == [t |-> "int", n |-> n, s |-> "", items |-> <<>>]

JStr(str) == [t |-> "str", n |-> 0, s |-> str, items |-> <<>>]

JArr(items) == [t |-> "arr", n |-> 0, s |-> "", items |-> items]

JObj(members) == [t |-> "obj", n |-> 0, s |-> "", items |-> members]

Member(key, value) == [key |-> key, value |-> value]

\* Option<BlockMeta>.
NoneMeta == [some |-> FALSE, val |-> [b |-> "", t |-> 0, h |-> 0]]

SomeMeta(meta) == [some |-> TRUE, val |-> meta]

\* The V values serialized: Undefined, output 0 (whose raw is 0 as well),
\* a small output, a small input, an input whose raw() overflows (2^31),
\* and an output above the sign bit.
SerVs ==
  {Undefined, Vout(U32(0)), Vout(U32(1)), Vin(U32(3)),
   Vin([hi |-> 1, lo |-> 0]), Vout([hi |-> 1, lo |-> 1])}

\* struct TxSeen: an unconfirmed and a confirmed transaction, with each V.
SerTxSeens ==
  [txid : {"txid"}, height : {0}, block_hash : {NoneStr},
   block_timestamp : {None}, v : SerVs]
    \cup
  [txid : {"txid"}, height : {1}, block_hash : {SomeStr("block")},
   block_timestamp : {Some(1)}, v : SerVs]

SerPages == SeqUpTo(SerTxSeens, MaxTxs)

\* A key with no page, or with one.
SerPageLists == {<<>>} \cup {<<page>> : page \in SerPages}

\* struct WaterfallResponse, to serialize.
SerResponses ==
  [txs_seen : UNION {[ks -> SerPageLists] : ks \in SUBSET Keys},
   page : {0},
   tip : {NoneStr, SomeStr("tip")},
   tip_meta : {NoneMeta, SomeMeta([b |-> "tip", t |-> 1, h |-> 1])}]

\* V::is_undefined.
is_undefined(v) == v.tag = "Undefined"

\* impl Serialize for V: serialize_i32(self.raw()), in a build without
\* overflow checks or when raw() does not overflow.
serialize_V(v) == JInt(raw(v).val)

\* derive(Serialize) for BlockMeta.
serialize_BlockMeta(meta) ==
  JObj(<<Member("b", JStr(meta.b)), Member("t", JInt(meta.t)),
         Member("h", JInt(meta.h))>>)

\* Mutant: v is written for every TxSeen, an Undefined one as 0.
serialize_TxSeen_always_v(tx) ==
  JObj(<<Member("txid", JStr(tx.txid)), Member("height", JInt(tx.height))>>
       \o (IF tx.block_hash.some
           THEN <<Member("block_hash", JStr(tx.block_hash.val))>> ELSE <<>>)
       \o (IF tx.block_timestamp.some
           THEN <<Member("block_timestamp", JInt(tx.block_timestamp.val))>>
           ELSE <<>>)
       \o <<Member("v", serialize_V(tx.v))>>)

\* derive(Serialize) for TxSeen: block_hash and block_timestamp are skipped
\* when None, v is skipped when V::is_undefined.
serialize_TxSeen(tx) ==
  JObj(<<Member("txid", JStr(tx.txid)), Member("height", JInt(tx.height))>>
       \o (IF tx.block_hash.some
           THEN <<Member("block_hash", JStr(tx.block_hash.val))>> ELSE <<>>)
       \o (IF tx.block_timestamp.some
           THEN <<Member("block_timestamp", JInt(tx.block_timestamp.val))>>
           ELSE <<>>)
       \o (IF is_undefined(tx.v) THEN <<>>
           ELSE <<Member("v", serialize_V(tx.v))>>))

\* Serialize for Vec<Vec<TxSeen>>.
serialize_pages(pages) ==
  JArr([p \in 1..Len(pages) |->
          JArr([i \in 1..Len(pages[p]) |-> serialize_TxSeen(pages[p][i])])])

\* Serialize for BTreeMap<String, Vec<Vec<TxSeen>>>: the members of the
\* keys from the i-th on, in key order.
RECURSIVE serialize_entries(_, _)
serialize_entries(txs_seen, i) ==
  IF i > Len(KeyOrder) THEN <<>>
  ELSE IF KeyOrder[i] \in DOMAIN txs_seen
       THEN <<Member(KeyOrder[i], serialize_pages(txs_seen[KeyOrder[i]]))>>
              \o serialize_entries(txs_seen, i + 1)
       ELSE serialize_entries(txs_seen, i + 1)

\* A serialization that writes a None tip as null.
serialize_WaterfallResponse_null_tip(response) ==
  JObj(<<Member("txs_seen", JObj(serialize_entries(response.txs_seen, 1))),
         Member("page", JInt(response.page)),
         Member("tip", IF response.tip.some THEN JStr(response.tip.val)
                       ELSE JNull)>>
       \o (IF response.tip_meta.some
           THEN <<Member("tip_meta", serialize_BlockMeta(response.tip_meta.val))>>
           ELSE <<>>))

\* derive(Serialize) for WaterfallResponse: tip and tip_meta are skipped
\* when None.
serialize_WaterfallResponse(response) ==
  JObj(<<Member("txs_seen", JObj(serialize_entries(response.txs_seen, 1))),
         Member("page", JInt(response.page))>>
       \o (IF response.tip.some
           THEN <<Member("tip", JStr(response.tip.val))>> ELSE <<>>)
       \o (IF response.tip_meta.some
           THEN <<Member("tip_meta", serialize_BlockMeta(response.tip_meta.val))>>
           ELSE <<>>))

\* Some V of the response makes raw() overflow.
raw_overflows(response) ==
  \E k \in DOMAIN response.txs_seen :
    \E p \in DOMAIN response.txs_seen[k] :
      \E i \in DOMAIN response.txs_seen[k][p] :
        raw(response.txs_seen[k][p][i].v).ovf

\* A response to serialize, in a build with or without overflow checks.
InitSerialize ==
  /\ NoCall
  /\ pure \in [step : {"response"}, checks : BOOLEAN,
               response : SerResponses, wire : {JNull}]

\* serde_json::to_value(&response): with overflow checks a raw() that
\* overflows panics and nothing is written.
WaterfallResponse_serialize ==
  /\ pure.step = "response"
  /\ pure' = IF pure.checks /\ raw_overflows(pure.response)
             THEN [pure EXCEPT !.step = "serialize_panic"]
             ELSE [pure EXCEPT
                     !.step = "serialized",
                     !.wire = serialize_WaterfallResponse(pure.response)]
  /\ UNCHANGED <<callvars, builder, calls>>

NextSerialize == WaterfallResponse_serialize

SpecSerialize == InitSerialize /\ [][NextSerialize]_vars

\* The object has a member of that key.
HasKey(obj, key) == \E m \in DOMAIN obj.items : obj.items[m].key = key

\* The value of the member of that key.
ValueOf(obj, key) ==
  obj.items[CHOOSE m \in DOMAIN obj.items : obj.items[m].key = key].value

\* A null is written somewhere in the value.
RECURSIVE HasNull(_)
HasNull(j) ==
  \/ j.t = "null"
  \/ j.t = "arr" /\ \E i \in DOMAIN j.items : HasNull(j.items[i])
  \/ j.t = "obj" /\ \E m \in DOMAIN j.items : HasNull(j.items[m].value)

\* The object written for the i-th TxSeen of page p of key k.
WireTx(k, p, i) == ValueOf(ValueOf(pure.wire, "txs_seen"), k).items[p].items[i]

\* tip and tip_meta are written exactly when Some, and no null is written.
OptionalKeys ==
  /\ HasKey(pure.wire, "tip") <=> pure.response.tip.some
  /\ HasKey(pure.wire, "tip_meta") <=> pure.response.tip_meta.some
  /\ ~HasNull(pure.wire)

\* C29 as stated: tip and tip_meta are written exactly when Some, never as
\* null, and every TxSeen is written with its V as the integer raw().
C29_Original ==
  pure.step = "serialized"
    => /\ OptionalKeys
       /\ \A k \in DOMAIN pure.response.txs_seen :
            \A p \in DOMAIN pure.response.txs_seen[k] :
              \A i \in DOMAIN pure.response.txs_seen[k][p] :
                /\ HasKey(WireTx(k, p, i), "v")
                /\ ValueOf(WireTx(k, p, i), "v")
                     = JInt(raw(pure.response.txs_seen[k][p][i].v).val)

\* C29, amended: in the serialized form the tip key is there exactly when
\* tip is Some and the tip_meta key exactly when tip_meta is Some, no null
\* is written, and the v key of a TxSeen is there exactly when its V is not
\* Undefined, with the integer raw() as its value.
C29_SerializedForm ==
  pure.step = "serialized"
    => /\ OptionalKeys
       /\ \A k \in DOMAIN pure.response.txs_seen :
            \A p \in DOMAIN pure.response.txs_seen[k] :
              \A i \in DOMAIN pure.response.txs_seen[k][p] :
                LET tx == pure.response.txs_seen[k][p][i]
                IN  /\ HasKey(WireTx(k, p, i), "v") <=> ~is_undefined(tx.v)
                    /\ ~is_undefined(tx.v)
                         => ValueOf(WireTx(k, p, i), "v") = JInt(raw(tx.v).val)

\* A response with a tip and no tip_meta was serialized: its TxSeen under
\* key1 has an Undefined V and no v key, the one under key2 is Vin(3),
\* written -4.
C29_Witness ==
  /\ pure.step = "serialized"
  /\ pure.response.tip.some
  /\ ~pure.response.tip_meta.some
  /\ HasKey(pure.wire, "tip")
  /\ ~HasKey(pure.wire, "tip_meta")
  /\ DOMAIN pure.response.txs_seen = {"key1", "key2"}
  /\ Len(pure.response.txs_seen["key1"]) = 1
  /\ Len(pure.response.txs_seen["key1"][1]) = 1
  /\ pure.response.txs_seen["key1"][1][1].v = Undefined
  /\ ~HasKey(WireTx("key1", 1, 1), "v")
  /\ Len(pure.response.txs_seen["key2"]) = 1
  /\ Len(pure.response.txs_seen["key2"][1]) = 1
  /\ pure.response.txs_seen["key2"][1][1].v = Vin(U32(3))
  /\ ValueOf(WireTx("key2", 1, 1), "v") = JInt(-4)

(***************************************************************************)
(* Termination of a call.                                                  *)
(*                                                                         *)
(* The steps of the program itself (sending, mapping the response) are     *)
(* always taken; that a request ends, with a response or with a failure,   *)
(* and that a sleep ends, is what the environment is assumed to give.      *)
(* Nothing makes a caller start a call or pick up a result.                *)
(***************************************************************************)
SpecLive ==
  /\ Init
  /\ [][Next]_vars
  /\ WF_vars(Send)
  /\ WF_vars((\E r \in Responses(client.kind) : Receive(r)) \/ SendFails)
  /\ WF_vars(Wake)
  /\ WF_vars(Finish)

\* C31: every call that was entered eventually is Decoded or Errored, and a
\* call whose every request was answered with 429, 500 or 503 ends Errored
\* after max_retries + 1 requests and max_retries sleeps.
C31_CallTerminates ==
  /\ (pc = "start") ~> (Decoded \/ Errored)
  /\ [](pc = "done" /\ resp # NoResp /\ AllClaimedRetryable
          => /\ Errored
             /\ requests = client.max_retries + 1
             /\ Len(sleeps) = client.max_retries)

\* C32: within a call, requests and sleeps alternate, a request first: a
\* request is sent only when as many sleeps as requests lie behind, a sleep
\* starts only after a request that no sleep has followed yet, and a call
\* that returns a response has slept once less than it has sent.
C32_RequestsAndSleepsAlternate ==
  /\ [][/\ requests' = requests + 1
             => (Len(sleeps) = requests /\ sleeps' = sleeps)
        /\ Len(sleeps') = Len(sleeps) + 1
             => (Len(sleeps) = requests - 1 /\ requests' = requests)
        /\ requests' \in {requests, requests + 1, 0}
        /\ Len(sleeps') \in {Len(sleeps), Len(sleeps) + 1, 0}]_vars
  /\ [](/\ pc = "start" => Len(sleeps) = requests
        /\ pc = "await" => Len(sleeps) = requests - 1
        /\ pc = "sleep" => Len(sleeps) = requests
        /\ (pc \in {"returned", "done"} /\ resp # NoResp)
             => Len(sleeps) = requests - 1)

\* A call through get_with_retry returned the response to its third
\* request, after two sleeps.
C32_Witness ==
  /\ pc = "returned"
  /\ op \in RetriedOps
  /\ resp # NoResp
  /\ requests = 3
  /\ Len(hist) = 3
  /\ sleeps = <<256, 512>>

\* C33: during a call attempts <= max_retries and delay = 256 * 2^attempts;
\* the call starts at attempts = 0 and delay = 256, attempts changes only by
\* one more when a sleep ends, and the delay changes only by doubling at
\* that same step, until the call is over.
C33_RetryState ==
  /\ [](/\ attempts <= client.max_retries
        /\ delay = BASE_BACKOFF_MILLIS * Pow2(attempts)
        /\ Built => (attempts = 0 /\ delay = BASE_BACKOFF_MILLIS))
  /\ [][pc # "done"
          => /\ attempts' # attempts
                  => (pc = "sleep" /\ attempts' = attempts + 1)
             /\ delay' # delay
                  => (pc = "sleep" /\ delay' = 2 * delay)
             /\ (attempts' = attempts) <=> (delay' = delay)]_vars

\* With the default six retries: the sixth sleep is over, the seventh
\* request is answered and returned with attempts = 6 and delay = 16384.
C33_Witness ==
  /\ pc = "returned"
  /\ client.max_retries = DEFAULT_MAX_RETRIES
  /\ attempts = 6
  /\ delay = 16384
  /\ requests = 7
  /\ sleeps = <<256, 512, 1024, 2048, 4096, 8192>>

\* C34: no call changes the client. Once built, no step of any call changes
\* the client's url, proxy, timeout, headers or max_retries (url, proxy, timeout
\* and max_retries stay the ones of the builder), and every call starts at
\* attempts = 0 with a first delay of 256 ms, whatever the calls before it
\* used.
C34_ClientUnchanged ==
  /\ [][ClientBuilt => client' = client]_vars
  /\ [](ClientBuilt
          => /\ client.url = builder.base_url
             /\ client.proxy = builder.proxy
             /\ client.timeout = builder.timeout
             /\ client.max_retries = builder.max_retries)
  /\ [](\A c \in DOMAIN calls :
          /\ (calls[c].pc = "start" /\ calls[c].requests = 0)
               => (calls[c].attempts = 0 /\ calls[c].delay = BASE_BACKOFF_MILLIS)
          /\ calls[c].sleeps # <<>> => calls[c].sleeps[1] = BASE_BACKOFF_MILLIS)

\* The first call used both retries of the client and ended in an error;
\* the second call starts at attempts = 0 and 256 ms, on a client that still
\* has max_retries = 2.
C34_Witness ==
  /\ ClientBuilt
  /\ client.max_retries = 2
  /\ calls[1].pc = "done"
  /\ calls[1].hist = <<503, 503, 503>>
  /\ calls[1].attempts = 2
  /\ calls[1].delay = 1024
  /\ ~calls[1].result.ok
  /\ calls[2].pc = "start"
  /\ calls[2].requests = 0
  /\ calls[2].attempts = 0
  /\ calls[2].delay = BASE_BACKOFF_MILLIS

(***************************************************************************)
(* The query string of get_response_json_with_query, byte by byte.         *)
(*                                                                         *)
(* A text is the sequence of its characters and so is the query string,    *)
(* so that "%26" is the three characters %, 2, 6 whether an encoder wrote  *)
(* them or the caller did.                                                 *)
(***************************************************************************)
\* The keys and values tried: empty, plain, with the separators of a query
\* string, a text that reads like an escape, the other reserved characters,
\* and a plus and a space.
QueryTexts ==
  { <<>>,
    <<"a">>,
    <<"a", "&", "b", "=", "c">>,
    <<"%", "2", "6">>,
    <<"?", "#", "%">>,
    <<"a", "+", " ">> }

QueryPairs == [key : QueryTexts, value : QueryTexts]

\* Mutant: an encoding that escapes the separators but lets a % through.
urlencoding_encode_bytes_keeps_percent(c) ==
  CASE c = " " -> <<"%", "2", "0">>
    [] c = "#" -> <<"%", "2", "3">>
    [] c = "&" -> <<"%", "2", "6">>
    [] c = "+" -> <<"%", "2", "B">>
    [] c = "=" -> <<"%", "3", "D">>
    [] c = "?" -> <<"%", "3", "F">>
    [] OTHER -> <<c>>

\* urlencoding::encode on one character: everything but letters, digits and
\* - _ . ~ becomes % and two hex digits.
urlencoding_encode_bytes(c) ==
  CASE c = " " -> <<"%", "2", "0">>
    [] c = "#" -> <<"%", "2", "3">>
    [] c = "%" -> <<"%", "2", "5">>
    [] c = "&" -> <<"%", "2", "6">>
    [] c = "+" -> <<"%", "2", "B">>
    [] c = "=" -> <<"%", "3", "D">>
    [] c = "?" -> <<"%", "3", "F">>
    [] OTHER -> <<c>>

\* The form encoding behind RequestBuilder::query on one character: letters,
\* digits and * - . _ are kept, a space becomes a +, the rest becomes % and
\* two hex digits.
form_urlencoded_bytes(c) ==
  CASE c = " " -> <<"+">>
    [] c = "#" -> <<"%", "2", "3">>
    [] c = "%" -> <<"%", "2", "5">>
    [] c = "&" -> <<"%", "2", "6">>
    [] c = "+" -> <<"%", "2", "B">>
    [] c = "=" -> <<"%", "3", "D">>
    [] c = "?" -> <<"%", "3", "F">>
    [] OTHER -> <<c>>

\* The encoding of a text, from its i-th character on.
RECURSIVE encode_bytes(_, _, _)
encode_bytes(kind, chars, i) ==
  IF i > Len(chars) THEN <<>>
  ELSE (IF kind = "blocking" THEN urlencoding_encode_bytes(chars[i])
        ELSE form_urlencoded_bytes(chars[i]))
         \o encode_bytes(kind, chars, i + 1)

\* What follows the ? of the URL, from the i-th pair on: blocking pushes &
\* before every pair but the first and then key=value, both encoded; async
\* hands the pairs to RequestBuilder::query one by one, which appends them
\* the same way.
RECURSIVE query_bytes(_, _, _)
query_bytes(kind, query_params, i) ==
  IF i > Len(query_params) THEN <<>>
  ELSE (IF i > 1 THEN <<"&">> ELSE <<>>)
         \o encode_bytes(kind, query_params[i].key, 1) \o <<"=">>
         \o encode_bytes(kind, query_params[i].value, 1)
         \o query_bytes(kind, query_params, i + 1)

\* A client of either kind and the pairs of one lookup.
InitPairs ==
  /\ NoCall
  /\ pure \in [step : {"params"}, kind : Kinds,
               query_params : SeqUpTo(QueryPairs, MaxPairs),
               query : {<<>>}]

\* get_response_json_with_query, up to the URL it requests.
get_response_json_with_query_url ==
  /\ pure.step = "params"
  /\ pure' = [pure EXCEPT
                !.step = "url",
                !.query = query_bytes(pure.kind, pure.query_params, 1)]
  /\ UNCHANGED <<callvars, builder, calls>>

NextPairs == get_response_json_with_query_url

SpecPairs == InitPairs /\ [][NextPairs]_vars

\* What a reader of the query string does.  The pieces of a text between
\* the separators, from the i-th character on, cur being the piece begun.
RECURSIVE SplitOn(_, _, _, _)
SplitOn(chars, sep, i, cur) ==
  IF i > Len(chars) THEN <<cur>>
  ELSE IF chars[i] = sep
       THEN <<cur>> \o SplitOn(chars, sep, i + 1, <<>>)
       ELSE SplitOn(chars, sep, i + 1, Append(cur, chars[i]))

\* The character an escape stands for.
Unescape(hi, lo) ==
  CASE hi = "2" /\ lo = "0" -> " "
    [] hi = "2" /\ lo = "3" -> "#"
    [] hi = "2" /\ lo = "5" -> "%"
    [] hi = "2" /\ lo = "6" -> "&"
    [] hi = "2" /\ lo = "B" -> "+"
    [] hi = "3" /\ lo = "D" -> "="
    [] hi = "3" /\ lo = "F" -> "?"
    [] OTHER -> "invalid"

\* Decoding of a piece, from its i-th character on: %XY is the character
\* it stands for, + is a space.
RECURSIVE Decode(_, _)
Decode(chars, i) ==
  IF i > Len(chars) THEN <<>>
  ELSE IF chars[i] = "%" /\ i + 2 <= Len(chars)
       THEN <<Unescape(chars[i + 1], chars[i + 2])>> \o Decode(chars, i + 3)
  ELSE IF chars[i] = "+" THEN <<" ">> \o Decode(chars, i + 1)
  ELSE <<chars[i]>> \o Decode(chars, i + 1)

\* The pairs read from a query string: split on &, each piece split on =,
\* both sides decoded.  A piece that is not key=value reads as no pair.
ParseQuery(query) ==
  IF query = <<>> THEN <<>>
  ELSE LET pieces == SplitOn(query, "&", 1, <<>>)
       IN  [p \in 1..Len(pieces) |->
              LET sides == SplitOn(pieces[p], "=", 1, <<>>)
              IN  IF Len(sides) = 2
                  THEN [key |-> Decode(sides[1], 1),
                        value |-> Decode(sides[2], 1)]
                  ELSE [key |-> <<"invalid">>, value |-> <<"invalid">>]]

\* C35: the query string keeps the pairs in the order given and encodes
\* keys and values, so that splitting it on & and on = and decoding gives
\* back the list of pairs, whatever reserved characters they hold.
C35_QueryRoundTrip ==
  pure.step = "url" => ParseQuery(pure.query) = pure.query_params

\* Two pairs full of reserved characters went through the blocking client:
\* the query is a%26b%3Dc=%2526&%3F%23%25=a and reads back as the two pairs.
C35_Witness ==
  /\ pure.step = "url"
  /\ pure.kind = "blocking"
  /\ pure.query_params
       = << [key |-> <<"a", "&", "b", "=", "c">>, value |-> <<"%", "2", "6">>],
            [key |-> <<"?", "#", "%">>, value |-> <<"a">>] >>
  /\ pure.query
       = <<"a", "%", "2", "6", "b", "%", "3", "D", "c", "=",
           "%", "2", "5", "2", "6", "&",
           "%", "3", "F", "%", "2", "3", "%", "2", "5", "=", "a">>
  /\ ParseQuery(pure.query) = pure.query_params

\* C36: for every i32 x, from_raw(x) is a V, never Vout(0), and its raw()
\* is x again.
C36_RawOfFromRaw ==
  (pure.given = "wire" /\ pure.step \in {"from_raw_panic", "raw_panic", "again"})
    => /\ pure.step = "again"
       /\ pure.again = pure.raw
       /\ pure.back # Vout(U32(0))

(***************************************************************************)
(* A TxSeen through serialization and back (src/src/api.rs).               *)
(***************************************************************************)
\* struct TxSeen: an unconfirmed and a confirmed transaction, with every V
\* tried.
TxSeenInputs ==
  [txid : {"txid"}, height : {0}, block_hash : {NoneStr},
   block_timestamp : {None}, v : VInputs]
    \cup
  [txid : {"txid"}, height : {1}, block_hash : {SomeStr("block")},
   block_timestamp : {Some(1)}, v : VInputs]

\* derive(Deserialize) for TxSeen: an Option that is not there is None, a v
\* that is not there is V::default(), a v that is there goes through
\* V::from_raw.
deserialize_TxSeen(obj) ==
  LET e == IF HasKey(obj, "v") THEN from_raw(ValueOf(obj, "v").n)
           ELSE Evaluated(Undefined, FALSE)
  IN  Evaluated(
        [txid |-> ValueOf(obj, "txid").s,
         height |-> ValueOf(obj, "height").n,
         block_hash |-> IF HasKey(obj, "block_hash")
                        THEN SomeStr(ValueOf(obj, "block_hash").s)
                        ELSE NoneStr,
         block_timestamp |-> IF HasKey(obj, "block_timestamp")
                             THEN Some(ValueOf(obj, "block_timestamp").n)
                             ELSE None,
         v |-> e.val],
        e.ovf)

\* A TxSeen to serialize, in a build with or without overflow checks.
InitTxSeen ==
  /\ NoCall
  /\ pure \in [step : {"tx_seen"}, checks : BOOLEAN, tx : TxSeenInputs,
               wire : {JNull}, back : TxSeenInputs, ovf : {FALSE}]
  /\ pure.back = pure.tx

\* serde_json::to_value(&tx_seen).
TxSeen_serialize ==
  /\ pure.step = "tx_seen"
  /\ LET e == raw(pure.tx.v)
     IN  pure' = IF e.ovf /\ pure.checks
                 THEN [pure EXCEPT !.step = "serialize_panic", !.ovf = TRUE]
                 ELSE [pure EXCEPT !.step = "serialized",
                                   !.wire = serialize_TxSeen(pure.tx),
                                   !.ovf = e.ovf]
  /\ UNCHANGED <<callvars, builder, calls>>

\* serde_json::from_value::<TxSeen>(wire).
TxSeen_deserialize ==
  /\ pure.step = "serialized"
  /\ LET e == deserialize_TxSeen(pure.wire)
     IN  pure' = IF e.ovf /\ pure.checks
                 THEN [pure EXCEPT !.step = "deserialize_panic", !.ovf = TRUE]
                 ELSE [pure EXCEPT !.step = "deserialized", !.back = e.val,
                                   !.ovf = pure.ovf \/ e.ovf]
  /\ UNCHANGED <<callvars, builder, calls>>

NextTxSeen ==
  \/ TxSeen_serialize
  \/ TxSeen_deserialize

SpecTxSeen == InitTxSeen /\ [][NextTxSeen]_vars

\* The v key is written exactly for a V that is not Undefined, as raw(), and
\* an object without it reads back as Undefined.
VFieldWritten ==
  /\ pure.step \in {"serialized", "deserialized", "deserialize_panic"}
       => /\ HasKey(pure.wire, "v") <=> ~is_undefined(pure.tx.v)
          /\ ~is_undefined(pure.tx.v)
               => ValueOf(pure.wire, "v") = JInt(raw(pure.tx.v).val)
  /\ (pure.step = "deserialized" /\ ~HasKey(pure.wire, "v"))
       => pure.back.v = Undefined

\* C37 as stated: the v key is written exactly for a V that is not
\* Undefined, as raw(), and serializing and deserializing gives back an
\* equal TxSeen, for every V.
C37_Original ==
  /\ VFieldWritten
  /\ pure.step \notin {"serialize_panic", "deserialize_panic"}
  /\ pure.step = "deserialized" => pure.back = pure.tx

\* The V values that come back: Undefined, Vout(n) with 0 < n < 2^31 and
\* Vin(n) with n < 2^31 - 1.
ComesBack(v) ==
  \/ v.tag = "Undefined"
  \/ v.tag = "Vout" /\ BelowSignBit(v.n) /\ v.n # U32(0)
  \/ v.tag = "Vin" /\ BelowSignBit(v.n) /\ v.n.lo < I32_MAX

\* C37, amended: the v key is written exactly for a V that is not
\* Undefined, as raw(), and an object without it reads back as Undefined;
\* serializing and deserializing gives back an equal TxSeen for Undefined,
\* Vout(n) with 0 < n < 2^31 and Vin(n) with n < 2^31 - 1.  Vout(0) is
\* written as 0 and comes back as Undefined; Vin(2^31 - 1) comes back only
\* where overflow wraps; an index of 2^31 or more does not come back.
C37_TxSeenRoundTrip ==
  /\ VFieldWritten
  /\ (pure.step # "tx_seen" /\ ComesBack(pure.tx.v))
       => /\ pure.step \in {"serialized", "deserialized"}
          /\ ~pure.ovf
          /\ pure.step = "deserialized" => pure.back = pure.tx
  /\ (pure.step = "deserialized" /\ pure.tx.v = Vout(U32(0)))
       => pure.back = [pure.tx EXCEPT !.v = Undefined]
  /\ (pure.step \in {"deserialized", "deserialize_panic"}
        /\ pure.tx.v = Vin(U32(I32_MAX)))
       => /\ pure.checks <=> pure.step = "deserialize_panic"
          /\ pure.step = "deserialized" => pure.back = pure.tx
  /\ (pure.step = "deserialized" /\ ~BelowSignBit(pure.tx.v.n))
       => pure.back # pure.tx

\* A confirmed TxSeen with Vin(3) was written with v = -4 and came back
\* equal, or an unconfirmed one with Undefined was written without v and
\* came back equal.
C37_Witness ==
  /\ pure.step = "deserialized"
  /\ pure.back = pure.tx
  /\ \/ /\ pure.tx.v = Vin(U32(3))
        /\ pure.tx.block_hash.some
        /\ ValueOf(pure.wire, "v") = JInt(-4)
     \/ /\ pure.tx.v = Undefined
        /\ ~pure.tx.block_hash.some
        /\ ~HasKey(pure.wire, "v")

(***************************************************************************)
(* The status of a response of the blocking client, over the i32 range.    *)
(***************************************************************************)
\* The statuses tried: a success, not-found, the three retryable codes and a
\* server error that is not retryable, each also 2^16 lower and 2^16 higher
\* (the same low 16 bits), and the ends of the u16 and i32 ranges.
StatusInputs ==
  {base + k * U16_RANGE : base \in {200, 404, 429, 500, 503, 504},
                          k \in {-1, 0, 1}}
    \cup {I32_MIN, -1, 0, U16_RANGE - 1, U16_RANGE, I32_MAX}

\* A response of the blocking client that is not a success.
InitStatus ==
  /\ NoCall
  /\ pure \in [step : {"response"},
               response : [status : StatusInputs \ {STATUS_OK}, body : Bodies],
               retryable : {FALSE}, error : {NoResult}]

\* get_with_retry asks is_status_retryable(resp.status_code); the helper
\* that gets the response turns it into the error.
BlockingClient_status ==
  /\ pure.step = "response"
  /\ pure' = [pure EXCEPT
                !.step = "decided",
                !.retryable = is_status_retryable(pure.response.status),
                !.error = blocking_http_error(pure.response)]
  /\ UNCHANGED <<callvars, builder, calls>>

NextStatus == BlockingClient_status

SpecStatus == InitStatus /\ [][NextStatus]_vars

\* C38: in the blocking client is_status_retryable(status) is true exactly
\* for the statuses 429, 500 and 503, over the whole i32 range, and the
\* status of an Error::HttpResponse is the number the decision was made on.
C38_RetryableIffCode ==
  pure.step = "decided"
    => /\ pure.retryable <=> pure.response.status \in ClaimedRetryable
       /\ pure.error.variant = "HttpResponse"
            => pure.error.status = pure.response.status

====
